---- MODULE Spec2Model ----
(***************************************************************************)
(* OrbitStream ingestion service: the ingest buffer and batched writer     *)
(* (db/batch.go), the circuit breaker (db/circuit_breaker.go), the         *)
(* write-ahead log (db/wal.go), the health monitor and WAL replayer        *)
(* (db/health_monitor.go), the telemetry handler (handlers/telemetry.go)   *)
(* and the start-up / shutdown sequence of main (main.go).                 *)
(*                                                                         *)
(* Samples are identified by the order in which they are posted: the k-th  *)
(* posted sample is the integer k.  Every mutex-protected section, every   *)
(* WAL operation and every store transaction is one atomic step; the       *)
(* goroutines interleave between those steps.                              *)
(***************************************************************************)
EXTENDS Integers, Sequences, FiniteSets, TLC

\* ---------------------------------------------------------------- bounds
\* number of samples posted over a run
MaxSamples == 3
\* number of size-triggered flush goroutines that may hold a batch at once
MaxSpawned == 1
\* number of calls made on a component that is driven directly
MaxCalls == 5
\* largest threshold a directly driven breaker is created with
MaxThreshold == 3
\* number of goroutines that call WAL.Write concurrently, and the number of
\* Write calls each of them makes
MaxAppenders == 2
MaxAppends == 2
\* number of samples taken through flushToWAL and read back
MaxRoundTrips == 1
\* largest magnitude of a telemetry value and of an anomaly threshold
MaxLevel == 1

\* number of lines of the WAL file that a directly called replayWAL reads
MaxLines == 5

\* largest maxRetries of a writer whose retry loop is driven directly
MaxTries == 4

\* largest number of samples in one POST /telemetry/batch request
MaxPoints == 3

\* ------------------------------------------- configuration (scaled down)
batchSize == 2
maxBufferSize == 2
maxRetries == 2
failureThreshold == 2
timeout == 1
replayBatchSize == 2

\* ------------------------------------------------------------- helpers
Range(s) == {s[i] : i \in 1..Len(s)}

Min(a, b) == IF a < b THEN a ELSE b

\* goroutines that run flush(): 0 is the Start loop, 1..MaxSpawned are
\* goroutines created by "go bp.flush()" in Add that hold a batch
Spawned == 1..MaxSpawned
Flushers == 0..MaxSpawned

VARIABLES
    \* BatchProcessor
    buffer,            \* bp.buffer
    bufferMutex,       \* who holds bp.bufferMutex
    done,              \* bp.done has been closed
    pending,           \* goroutines created by "go bp.flush()" that have not
                       \* locked the buffer yet
    fpc,               \* position of every flush goroutine
    batch,             \* flush's local batch
    attempt,           \* flushWithRetry's loop variable
    allowed,           \* result of the Allow call of the current iteration
    walIdx,            \* flushToWAL's position in the batch
    final,             \* the Start loop took its done branch
    \* CircuitBreaker
    cb,                \* state, failureCount, halfOpenAttempts
    sinceLastFailure,  \* time.Since(cb.lastFailureTime), saturated at timeout
    \* store (the telemetry table) and its reachability
    store,
    storeUp,
    \* WAL
    walConfigured,     \* bp.wal != nil
    walFile,           \* lines of the WAL file, in file order
    walTorn,           \* the file ends in a partial record without newline
    walOpen,           \* w.file is an open handle
    walMissing,        \* no file exists at w.filePath
    walCalls,          \* WAL methods called by concurrent goroutines: the
                       \* holder of w.mu, each caller's position and locals
    \* HealthMonitor
    hmPc,
    isHealthy,
    records,           \* replayWAL's local records
    replayIdx,         \* replayWAL's loop variable i
    replaysLeft,       \* replayWAL calls left in the current checkHealth
    stopCh,            \* hm.stopCh has been closed
    \* main and the handler
    mainPc,
    nextId,            \* the next sample to be posted
    lastStatus,        \* HTTP status of the most recent POST /telemetry
    \* history
    admitted,          \* samples whose Add returned nil, in admission order
    drained,           \* concatenation of the batches taken by flush
    storeAttempts,     \* store transactions begun by each flusher's current
                       \* flushWithRetry call
    crashed,           \* the process crashed and was restarted
    walAtCrash,        \* complete records in the WAL file at the crash
    ackedAtCrash,      \* samples answered 202 before the crash
    admittedAtStop,    \* samples admitted when BatchProcessor.Stop was called
    checkedSinceStart, \* a checkHealth with a successful probe and an
                       \* unaborted replay has returned since process start
    calls,             \* the calls made on a component (breaker, WAL,
                       \* detectAnomaly ...) that is driven directly,
                       \* oldest first, with what each returned
    startCheck         \* the checkHealth call that HealthMonitor.Start
                       \* makes itself: its position and replayWAL locals

bpVars == <<buffer, bufferMutex, done, pending, fpc, batch, attempt, allowed,
           walIdx, final>>
cbVars == <<cb, sinceLastFailure>>
storeVars == <<store, storeUp>>
walVars == <<walConfigured, walFile, walTorn, walOpen, walMissing,
             walCalls>>
hmVars == <<hmPc, isHealthy, records, replayIdx, replaysLeft, stopCh,
            startCheck>>
mainVars == <<mainPc, nextId, lastStatus>>
histVars == <<admitted, drained, storeAttempts, crashed, walAtCrash,
              ackedAtCrash, admittedAtStop, checkedSinceStart, calls>>
vars == <<bpVars, cbVars, storeVars, walVars, hmVars, mainVars, histVars>>

\* ------------------------------------------------------ circuit breaker
\* (variant: a new breaker that already counts one failure)
NewCircuitBreaker_OneFailure(threshold) ==
    [state |-> "CLOSED", failureCount |-> 1, failureThreshold |-> threshold,
     halfOpenAttempts |-> 0]

NewCircuitBreaker(threshold) ==
    [state |-> "CLOSED", failureCount |-> 0, failureThreshold |-> threshold,
     halfOpenAttempts |-> 0]

\* (variant: HALF_OPEN admits every caller)
Allow_NoProbeLimit(c, since) ==
    CASE c.state = "CLOSED" -> [ok |-> TRUE, cb |-> c]
      [] c.state = "OPEN" ->
            IF since >= timeout
            THEN [ok |-> TRUE,
                  cb |-> [c EXCEPT !.state = "HALF_OPEN",
                                   !.halfOpenAttempts = 0]]
            ELSE [ok |-> FALSE, cb |-> c]
      [] c.state = "HALF_OPEN" ->
            [ok |-> TRUE, cb |-> [c EXCEPT !.halfOpenAttempts = @ + 1]]

\* (variant: an OPEN breaker probes without waiting for the timeout)
Allow_NoTimeout(c, since) ==
    CASE c.state = "CLOSED" -> [ok |-> TRUE, cb |-> c]
      [] c.state = "OPEN" ->
            [ok |-> TRUE,
             cb |-> [c EXCEPT !.state = "HALF_OPEN", !.halfOpenAttempts = 0]]
      [] c.state = "HALF_OPEN" ->
            [ok |-> ~(c.halfOpenAttempts + 1 > 1),
             cb |-> [c EXCEPT !.halfOpenAttempts = @ + 1]]

\* Allow: the result and the breaker afterwards
Allow(c, since) ==
    CASE c.state = "CLOSED" -> [ok |-> TRUE, cb |-> c]
      [] c.state = "OPEN" ->
            IF since >= timeout
            THEN [ok |-> TRUE,
                  cb |-> [c EXCEPT !.state = "HALF_OPEN",
                                   !.halfOpenAttempts = 0]]
            ELSE [ok |-> FALSE, cb |-> c]
      [] c.state = "HALF_OPEN" ->
            [ok |-> ~(c.halfOpenAttempts + 1 > 1),
             cb |-> [c EXCEPT !.halfOpenAttempts = @ + 1]]

\* (variant: the failure count kept when the circuit closes)
RecordSuccess_KeepCount(c) ==
    IF c.state = "HALF_OPEN"
    THEN [c EXCEPT !.state = "CLOSED", !.halfOpenAttempts = 0]
    ELSE c

RecordSuccess(c) ==
    IF c.state = "HALF_OPEN"
    THEN [c EXCEPT !.state = "CLOSED", !.failureCount = 0,
                   !.halfOpenAttempts = 0]
    ELSE c

\* (variant: a failed probe leaves halfOpenAttempts as it is)
RecordFailure_KeepAttempts(c) ==
    LET n == c.failureCount + 1
    IN  IF c.state = "CLOSED" /\ n >= c.failureThreshold
        THEN [c EXCEPT !.failureCount = n, !.state = "OPEN"]
        ELSE IF c.state = "HALF_OPEN"
        THEN [c EXCEPT !.failureCount = n, !.state = "OPEN"]
        ELSE [c EXCEPT !.failureCount = n]

\* (variant: the threshold compared with > instead of >=)
RecordFailure_Strict(c) ==
    LET n == c.failureCount + 1
    IN  IF c.state = "CLOSED" /\ n > c.failureThreshold
        THEN [c EXCEPT !.failureCount = n, !.state = "OPEN"]
        ELSE IF c.state = "HALF_OPEN"
        THEN [c EXCEPT !.failureCount = n, !.state = "OPEN",
                       !.halfOpenAttempts = 0]
        ELSE [c EXCEPT !.failureCount = n]

RecordFailure(c) ==
    LET n == c.failureCount + 1
    IN  IF c.state = "CLOSED" /\ n >= c.failureThreshold
        THEN [c EXCEPT !.failureCount = n, !.state = "OPEN"]
        ELSE IF c.state = "HALF_OPEN"
        THEN [c EXCEPT !.failureCount = n, !.state = "OPEN",
                       !.halfOpenAttempts = 0]
        ELSE [c EXCEPT !.failureCount = n]

\* (variant: Reset keeps the failure count)
Reset_KeepCount(c) == [c EXCEPT !.state = "CLOSED", !.halfOpenAttempts = 0]

\* Reset: back to CLOSED, counters zeroed, lastFailureTime the zero time
Reset(c) == [c EXCEPT !.state = "CLOSED", !.failureCount = 0,
                      !.halfOpenAttempts = 0]

\* State: the current state, nothing changed
State(c) == c.state

\* ------------------------------------------------------------------ WAL
\* a line of the file is a sample, or Garbage when it does not parse
Garbage == 0

\* Write: data plus newline appended to the file; after a partial tail the
\* new bytes continue the unterminated line
WALWriteLine(file, torn, r) ==
    IF torn THEN Append(file, Garbage) ELSE Append(file, r)

RECURSIVE ParsedLines(_)
\* (variant: parsing stops at the first line that does not parse)
ParsedLines_StopAtError(file) ==
    LET bad == {i \in 1..Len(file) : file[i] = Garbage}
    IN  IF bad = {} THEN file
        ELSE SubSeq(file, 1, (CHOOSE i \in bad : \A j \in bad : i <= j) - 1)

\* ReadAll: the lines that parse, in file order
ParsedLines(file) ==
    IF file = <<>> THEN <<>>
    ELSE IF Head(file) = Garbage THEN ParsedLines(Tail(file))
    ELSE <<Head(file)>> \o ParsedLines(Tail(file))

ReadAll(file, torn) == ParsedLines(file)

\* (variant: the file opened with O_TRUNC)
NewWALFile_Trunc(file) == <<>>

\* NewWAL opens with O_CREATE|O_APPEND: the content is kept
NewWALFile(file) == file


\* the goroutines that call the WAL concurrently: appenders (flushToWAL),
\* a reader (Count from the health endpoint) and a clearer (replayWAL)
Appenders == 1..MaxAppenders
Reader == MaxAppenders + 1
Clearer == MaxAppenders + 2
Callers == 1..(MaxAppenders + 2)

\* no WAL method being called, w.mu free
NoWALCalls ==
    [mu |-> 0,
     pc |-> [g \in Callers |-> "idle"],
     left |-> [g \in Appenders |-> MaxAppends],
     chunk |-> <<>>,
     recs |-> <<>>,
     hasRead |-> FALSE,
     seen |-> {},
     acked |-> {},
     cleared |-> FALSE]

\* ----------------------------------------------------------------- Init
\* Start's own checkHealth at position pc, outside a replayWAL call
StartCheckAt(pc) == [pc |-> pc, records |-> <<>>, idx |-> 0, left |-> 0]

\* the process once main has set everything up: a breaker with the given
\* threshold, the WAL file as a previous run left it, Start's own
\* checkHealth at position pc
Boot(threshold, file, pc) ==
    /\ buffer = <<>>
    /\ bufferMutex = "free"
    /\ done = FALSE
    /\ pending = 0
    /\ fpc = [g \in Flushers |-> IF g = 0 THEN "select" ELSE "idle"]
    /\ batch = [g \in Flushers |-> <<>>]
    /\ attempt = [g \in Flushers |-> 0]
    /\ allowed = [g \in Flushers |-> "none"]
    /\ walIdx = [g \in Flushers |-> 0]
    /\ final = FALSE
    /\ cb = NewCircuitBreaker(threshold)
    /\ sinceLastFailure = timeout
    /\ store = {}
    /\ storeUp = TRUE
    /\ walConfigured \in BOOLEAN
    /\ walFile = file
    /\ walTorn = FALSE
    /\ walOpen = walConfigured
    /\ walMissing = FALSE
    /\ walCalls = NoWALCalls
    /\ hmPc = IF walConfigured THEN "select" ELSE "absent"
    /\ startCheck = StartCheckAt(pc)
    /\ isHealthy = FALSE
    /\ records = <<>>
    /\ replayIdx = 0
    /\ replaysLeft = 0
    /\ stopCh = FALSE
    /\ mainPc = "serving"
    /\ nextId = 1
    /\ lastStatus = 0
    /\ admitted = <<>>
    /\ drained = <<>>
    /\ storeAttempts = [g \in Flushers |-> 0]
    /\ crashed = FALSE
    /\ walAtCrash = {}
    /\ ackedAtCrash = {}
    /\ admittedAtStop = {}
    /\ checkedSinceStart = FALSE
    /\ calls = <<>>

\* a fresh WAL file, Start's own checkHealth done
InitWith(threshold) == Boot(threshold, <<>>, "returned")

\* main: the breaker created with cfg.CircuitBreakerThreshold
Init == InitWith(failureThreshold)

\* ------------------------------------------------- Add and the handler
\* (variant: the capacity check off by one)
BufferFull_OffByOne(buf) == Len(buf) > maxBufferSize

\* Add's capacity check
BufferFull(buf) == Len(buf) >= maxBufferSize

\* Add's size trigger, evaluated after the append
SizeTrigger(buf) == Len(buf) >= batchSize

\* (variant: Add's error ignored, as the batch endpoint does)
StatusOf_Always202(err) == 202

\* the status HandleTelemetry answers for Add's result
StatusOf(err) == IF err THEN 503 ELSE 202

\* POST /telemetry with the next sample: HandleTelemetry calling Add
HandleTelemetry ==
    /\ mainPc # "exited"
    /\ nextId <= MaxSamples
    /\ nextId' = nextId + 1
    /\ IF BufferFull(buffer)
       THEN /\ lastStatus' = StatusOf(TRUE)
            /\ UNCHANGED <<buffer, pending, admitted>>
       ELSE /\ buffer' = Append(buffer, nextId)
            /\ admitted' = Append(admitted, nextId)
            /\ lastStatus' = StatusOf(FALSE)
            /\ pending' = IF SizeTrigger(buffer') THEN pending + 1
                          ELSE pending
    /\ UNCHANGED <<bufferMutex, calls, done, fpc, batch, attempt, allowed,
                   walIdx, final, cbVars, storeVars, walVars, hmVars, mainPc,
                   drained, storeAttempts, crashed, walAtCrash, ackedAtCrash,
                   admittedAtStop, checkedSinceStart>>

\* ------------------------------------------------ POST /telemetry/batch
\* one batch request after the single posts; its samples are numbered
\* after theirs, and its handler's locals are the one entry of calls
BatchPoint(i) == MaxSamples + i

\* (variant: every sample of the request counted)
CountAfter_All(c, err) == c + 1

\* acceptedCount after one Add
CountAfter(c, err) == IF err THEN c ELSE c + 1

\* json.Marshal of TelemetryResponse: count is tagged omitempty
MarshalResponse(c) ==
    IF c = 0 THEN [status |-> "accepted"]
    ELSE [status |-> "accepted", count |-> c]

\* json.Unmarshal into TelemetryResponse: an absent count is 0
UnmarshalCount(body) ==
    IF "count" \in DOMAIN body THEN body.count ELSE 0

\* ShouldBindJSON succeeded with n points
BatchPost ==
    /\ mainPc # "exited"
    /\ calls = <<>>
    /\ \E n \in 0..MaxPoints :
           calls' = <<[op |-> "HandleTelemetryBatch", points |-> n, i |-> 0,
                       acceptedCount |-> 0, status |-> 0,
                       body |-> [status |-> "none"]]>>
    /\ UNCHANGED <<bpVars, cbVars, storeVars, walVars, hmVars, mainVars,
                   admitted, drained, storeAttempts, crashed, walAtCrash,
                   ackedAtCrash, admittedAtStop, checkedSinceStart>>

\* one turn of the loop: Add(points[i]); an error is logged and the loop
\* goes on
BatchAdd ==
    /\ mainPc # "exited"
    /\ calls # <<>>
    /\ calls[1].status = 0
    /\ calls[1].i < calls[1].points
    /\ LET err == BufferFull(buffer)
           r == BatchPoint(calls[1].i + 1)
       IN  /\ calls' = <<[calls[1] EXCEPT
                             !.i = @ + 1,
                             !.acceptedCount = CountAfter(@, err)]>>
           /\ IF err
              THEN UNCHANGED <<buffer, pending, admitted>>
              ELSE /\ buffer' = Append(buffer, r)
                   /\ admitted' = Append(admitted, r)
                   /\ pending' = IF SizeTrigger(buffer') THEN pending + 1
                                 ELSE pending
    /\ UNCHANGED <<bufferMutex, done, fpc, batch, attempt, allowed, walIdx,
                   final, cbVars, storeVars, walVars, hmVars, mainVars,
                   drained, storeAttempts, crashed, walAtCrash, ackedAtCrash,
                   admittedAtStop, checkedSinceStart>>

\* c.JSON(http.StatusAccepted, TelemetryResponse{"accepted", acceptedCount})
BatchRespond ==
    /\ mainPc # "exited"
    /\ calls # <<>>
    /\ calls[1].status = 0
    /\ calls[1].i = calls[1].points
    /\ calls' = <<[calls[1] EXCEPT
                      !.status = 202,
                      !.body = MarshalResponse(calls[1].acceptedCount)]>>
    /\ UNCHANGED <<bpVars, cbVars, storeVars, walVars, hmVars, mainVars,
                   admitted, drained, storeAttempts, crashed, walAtCrash,
                   ackedAtCrash, admittedAtStop, checkedSinceStart>>

\* ---------------------------------------------------------- Start loop
\* case <-bp.ticker.C
TickerFire ==
    /\ mainPc # "exited"
    /\ fpc[0] = "select"
    /\ fpc' = [fpc EXCEPT ![0] = "flush"]
    /\ UNCHANGED <<bufferMutex, buffer, done, pending, batch, attempt,
                   allowed, walIdx, final, cbVars, storeVars, walVars, hmVars,
                   mainVars, histVars>>

\* case <-bp.done: stop the ticker, final flush, return
SelectDone ==
    /\ mainPc # "exited"
    /\ fpc[0] = "select"
    /\ done
    /\ final' = TRUE
    /\ fpc' = [fpc EXCEPT ![0] = "flush"]
    /\ UNCHANGED <<bufferMutex, buffer, done, pending, batch, attempt,
                   allowed, walIdx, cbVars, storeVars, walVars, hmVars,
                   mainVars, histVars>>

\* ---------------------------------------------------------------- flush
\* where goroutine g is once its flush() has returned
Returned(g) == IF g = 0 THEN (IF final THEN "returned" ELSE "select")
               ELSE "idle"

\* flush (and flushWithRetry in it) returns: its locals are gone
Finish(g) ==
    /\ fpc' = [fpc EXCEPT ![g] = Returned(g)]
    /\ batch' = [batch EXCEPT ![g] = <<>>]
    /\ attempt' = [attempt EXCEPT ![g] = 0]
    /\ allowed' = [allowed EXCEPT ![g] = "none"]
    /\ walIdx' = [walIdx EXCEPT ![g] = 0]
    /\ storeAttempts' = [storeAttempts EXCEPT ![g] = 0]

\* (variant: the copy misses the newest sample)
TakeBatch_DropLast(buf) == SubSeq(buf, 1, Len(buf) - 1)

\* flush's snapshot of the buffer and the buffer it leaves
TakeBatch(buf) == buf
ResetBuffer(buf) == <<>>

\* (variant: the loop runs one iteration too many)
LoopHead_OneMore(k) == IF k <= maxRetries THEN "allow" ELSE "wal"

\* the head of flushWithRetry's loop
LoopHead(k) == IF k < maxRetries THEN "allow" ELSE "wal"

\* flush with samples in the buffer: the buffer swapped out under the
\* mutex, then flushWithRetry entered
Take(g) ==
    /\ batch' = [batch EXCEPT ![g] = TakeBatch(buffer)]
    /\ buffer' = ResetBuffer(buffer)
    /\ drained' = drained \o batch'[g]
    /\ attempt' = [attempt EXCEPT ![g] = 0]
    /\ allowed' = [allowed EXCEPT ![g] = "none"]
    /\ walIdx' = [walIdx EXCEPT ![g] = 1]
    /\ storeAttempts' = [storeAttempts EXCEPT ![g] = 0]
    /\ fpc' = [fpc EXCEPT ![g] = LoopHead(0)]

\* flush called by the Start loop: return on an empty buffer
TickerFlush ==
    /\ mainPc # "exited"
    /\ fpc[0] = "flush"
    /\ IF Len(buffer) = 0
       THEN /\ fpc' = [fpc EXCEPT ![0] = Returned(0)]
            /\ UNCHANGED <<buffer, batch, attempt, allowed, walIdx, drained,
                           storeAttempts>>
       ELSE Take(0)
    /\ UNCHANGED <<bufferMutex, calls, done, pending, final, cbVars,
                   storeVars, walVars, hmVars, mainVars, admitted, crashed,
                   walAtCrash, ackedAtCrash, admittedAtStop,
                   checkedSinceStart>>

FreeSlots == {g \in Spawned : fpc[g] = "idle"}

\* the goroutine started by "go bp.flush()" that takes the next batch
NewFlusher == CHOOSE g \in FreeSlots : \A h \in FreeSlots : g <= h

\* flush run by a goroutine that Add started
SpawnedFlush ==
    /\ mainPc # "exited"
    /\ pending > 0
    /\ pending' = pending - 1
    /\ IF Len(buffer) = 0
       THEN UNCHANGED <<buffer, fpc, batch, attempt, allowed, walIdx,
                        drained, storeAttempts>>
       ELSE /\ FreeSlots # {}
            /\ Take(NewFlusher)
    /\ UNCHANGED <<bufferMutex, calls, done, final, cbVars, storeVars,
                   walVars, hmVars, mainVars, admitted, crashed, walAtCrash,
                   ackedAtCrash, admittedAtStop, checkedSinceStart>>

\* ------------------------------------- Add and flush, lock by lock
\* bp.bufferMutex.Lock() in Add
MuAddLock ==
    /\ mainPc # "exited"
    /\ nextId <= MaxSamples
    /\ bufferMutex = "free"
    /\ bufferMutex' = "Add"
    /\ UNCHANGED <<buffer, done, pending, fpc, batch, attempt, allowed,
                   walIdx, final, cbVars, storeVars, walVars, hmVars,
                   mainVars, histVars>>

\* (variant: the mutex kept after the critical section)
Unlock_Kept(m) == m

\* bp.bufferMutex.Unlock()
Unlock(m) == "free"

\* Add under the mutex: capacity check, append, "go bp.flush()"; the
\* deferred Unlock runs at the return
MuAdd ==
    /\ mainPc # "exited"
    /\ bufferMutex = "Add"
    /\ bufferMutex' = Unlock(bufferMutex)
    /\ nextId' = nextId + 1
    /\ IF BufferFull(buffer)
       THEN /\ lastStatus' = StatusOf(TRUE)
            /\ UNCHANGED <<buffer, pending, admitted>>
       ELSE /\ buffer' = Append(buffer, nextId)
            /\ admitted' = Append(admitted, nextId)
            /\ lastStatus' = StatusOf(FALSE)
            /\ pending' = IF SizeTrigger(buffer') THEN pending + 1
                          ELSE pending
    /\ UNCHANGED <<calls, done, fpc, batch, attempt, allowed, walIdx, final,
                   cbVars, storeVars, walVars, hmVars, mainPc, drained,
                   storeAttempts, crashed, walAtCrash, ackedAtCrash,
                   admittedAtStop, checkedSinceStart>>

\* bp.bufferMutex.Lock() in the flush that the Start loop calls
MuTickerLock ==
    /\ mainPc # "exited"
    /\ fpc[0] = "flush"
    /\ bufferMutex = "free"
    /\ bufferMutex' = "flush"
    /\ fpc' = [fpc EXCEPT ![0] = "locked"]
    /\ UNCHANGED <<buffer, done, pending, batch, attempt, allowed, walIdx,
                   final, cbVars, storeVars, walVars, hmVars, mainVars,
                   histVars>>

\* bp.bufferMutex.Lock() in the flush of a goroutine that Add started
MuSpawnedLock ==
    /\ mainPc # "exited"
    /\ pending > 0
    /\ FreeSlots # {}
    /\ bufferMutex = "free"
    /\ bufferMutex' = "flush"
    /\ pending' = pending - 1
    /\ fpc' = [fpc EXCEPT ![NewFlusher] = "locked"]
    /\ UNCHANGED <<buffer, done, batch, attempt, allowed, walIdx, final,
                   cbVars, storeVars, walVars, hmVars, mainVars, histVars>>

\* flush under the mutex: return on an empty buffer, else copy and reset;
\* Unlock either way, before flushWithRetry
MuCopy(g) ==
    /\ mainPc # "exited"
    /\ fpc[g] = "locked"
    /\ bufferMutex' = Unlock(bufferMutex)
    /\ IF Len(buffer) = 0
       THEN /\ fpc' = [fpc EXCEPT ![g] = Returned(g)]
            /\ UNCHANGED <<buffer, batch, attempt, allowed, walIdx, drained,
                           storeAttempts>>
       ELSE Take(g)
    /\ UNCHANGED <<calls, done, pending, final, cbVars, storeVars, walVars,
                   hmVars, mainVars, admitted, crashed, walAtCrash,
                   ackedAtCrash, admittedAtStop, checkedSinceStart>>

\* (variant: the breaker's answer ignored)
AfterAllow_Ignore(ok) == "insert"

\* flushWithRetry's branch on the breaker's answer
AfterAllow(ok) == IF ok THEN "insert" ELSE "wal"

\* flushWithRetry: bp.circuitBreaker.Allow()
CallAllow(g) ==
    /\ mainPc # "exited"
    /\ fpc[g] = "allow"
    /\ LET r == Allow(cb, sinceLastFailure)
       IN  /\ cb' = r.cb
           /\ allowed' = [allowed EXCEPT ![g] = IF r.ok THEN "true"
                                                 ELSE "false"]
           /\ fpc' = [fpc EXCEPT ![g] = AfterAllow(r.ok)]
    /\ UNCHANGED <<bufferMutex, buffer, done, pending, batch, attempt, walIdx,
                   final, sinceLastFailure, storeVars, walVars, hmVars,
                   mainVars, histVars>>

\* insertBatch: one transaction, committed whole or rolled back
InsertBatch(g) ==
    /\ mainPc # "exited"
    /\ fpc[g] = "insert"
    /\ storeAttempts' = [storeAttempts EXCEPT ![g] = @ + 1]
    /\ IF storeUp
       THEN /\ store' = store \cup Range(batch[g])
            /\ fpc' = [fpc EXCEPT ![g] = "success"]
       ELSE /\ store' = store
            /\ fpc' = [fpc EXCEPT ![g] = "failure"]
    /\ UNCHANGED <<bufferMutex, calls, buffer, done, pending, batch, attempt,
                   allowed, walIdx, final, cbVars, storeUp, walVars, hmVars,
                   mainVars, admitted, drained, crashed, walAtCrash,
                   ackedAtCrash, admittedAtStop, checkedSinceStart>>

\* err == nil: RecordSuccess, return nil
CallRecordSuccess(g) ==
    /\ mainPc # "exited"
    /\ fpc[g] = "success"
    /\ cb' = RecordSuccess(cb)
    /\ Finish(g)
    /\ UNCHANGED <<bufferMutex, calls, buffer, done, pending, final,
                   sinceLastFailure, storeVars, walVars, hmVars, mainVars,
                   admitted, drained, crashed, walAtCrash, ackedAtCrash,
                   admittedAtStop, checkedSinceStart>>

\* err != nil: RecordFailure, then the backoff unless it was the last attempt
CallRecordFailure(g) ==
    /\ mainPc # "exited"
    /\ fpc[g] = "failure"
    /\ cb' = RecordFailure(cb)
    /\ sinceLastFailure' = 0
    /\ IF attempt[g] < maxRetries - 1
       THEN /\ fpc' = [fpc EXCEPT ![g] = "sleep"]
            /\ UNCHANGED attempt
       ELSE /\ attempt' = [attempt EXCEPT ![g] = @ + 1]
            /\ fpc' = [fpc EXCEPT ![g] = LoopHead(attempt'[g])]
    /\ UNCHANGED <<bufferMutex, buffer, done, pending, batch, allowed, walIdx,
                   final, storeVars, walVars, hmVars, mainVars, histVars>>

\* time.Sleep(delay + jitter), attempt++
Sleep(g) ==
    /\ mainPc # "exited"
    /\ fpc[g] = "sleep"
    /\ attempt' = [attempt EXCEPT ![g] = @ + 1]
    /\ allowed' = [allowed EXCEPT ![g] = "none"]
    /\ fpc' = [fpc EXCEPT ![g] = LoopHead(attempt'[g])]
    /\ UNCHANGED <<bufferMutex, buffer, done, pending, batch, walIdx, final,
                   cbVars, storeVars, walVars, hmVars, mainVars, histVars>>

\* flushToWAL: one wal.Write per step; an absent WAL or a failed Write
\* returns an error and the rest of the batch is dropped
FlushToWAL(g) ==
    /\ mainPc # "exited"
    /\ fpc[g] = "wal"
    /\ IF ~walConfigured \/ ~walOpen
       THEN /\ Finish(g)
            /\ UNCHANGED <<walFile, walTorn>>
       ELSE /\ walFile' = WALWriteLine(walFile, walTorn, batch[g][walIdx[g]])
            /\ walTorn' = FALSE
            /\ IF walIdx[g] + 1 > Len(batch[g])
               THEN Finish(g)
               ELSE /\ walIdx' = [walIdx EXCEPT ![g] = @ + 1]
                    /\ UNCHANGED <<fpc, batch, attempt, allowed,
                                   storeAttempts>>
    /\ UNCHANGED <<bufferMutex, walMissing, walCalls, calls, buffer, done,
                   pending, final, cbVars, storeVars, walConfigured, walOpen,
                   hmVars, mainVars, admitted, drained, crashed, walAtCrash,
                   ackedAtCrash, admittedAtStop, checkedSinceStart>>


\* -------------------------------------------------------- HealthMonitor
\* checkHealth up to its replayWAL calls: Ping, isHealthy updated, replayWAL
\* once on recovery (err == nil && !wasHealthy) and once more for err == nil
ReplayCalls(err, wasHealthy) ==
    (IF ~err /\ ~wasHealthy THEN 1 ELSE 0) + (IF ~err THEN 1 ELSE 0)

\* a checkHealth call (the one made by Start, then one per tick of
\* monitorLoop), up to its replayWAL calls
HMTick ==
    /\ mainPc # "exited"
    /\ hmPc = "select"
    /\ isHealthy' = storeUp
    /\ replaysLeft' = ReplayCalls(~storeUp, isHealthy)
    /\ hmPc' = IF replaysLeft' > 0 THEN "readAll" ELSE "select"
    /\ UNCHANGED <<startCheck, bpVars, cbVars, storeVars, walVars, records,
                   replayIdx, stopCh, mainVars, histVars>>

\* monitorLoop: case <-hm.stopCh
HMSelectStop ==
    /\ mainPc # "exited"
    /\ hmPc = "select"
    /\ stopCh
    /\ hmPc' = "returned"
    /\ UNCHANGED <<startCheck, bpVars, cbVars, storeVars, walVars, isHealthy,
                   records, replayIdx, replaysLeft, stopCh, mainVars,
                   histVars>>

\* where the monitor is once a replayWAL call has returned
AfterReplay(left) == IF left > 1 THEN "readAll" ELSE "select"

\* replayWAL: records, err := hm.wal.ReadAll(); return when there are none
ReplayReadAll ==
    /\ mainPc # "exited"
    /\ hmPc = "readAll"
    /\ walOpen' = TRUE
    /\ LET rs == ReadAll(walFile, walTorn)
       IN  IF Len(rs) = 0
           THEN /\ hmPc' = AfterReplay(replaysLeft)
                /\ replaysLeft' = replaysLeft - 1
                /\ checkedSinceStart' =
                       (checkedSinceStart \/ replaysLeft = 1)
                /\ UNCHANGED <<records, replayIdx>>
           ELSE /\ records' = rs
                /\ replayIdx' = 0
                /\ hmPc' = "insert"
                /\ UNCHANGED <<replaysLeft, checkedSinceStart>>
    /\ UNCHANGED <<walMissing, walCalls, startCheck, calls, bpVars, cbVars,
                   storeVars, walConfigured, walFile, walTorn, isHealthy,
                   stopCh, mainVars, admitted, drained, storeAttempts,
                   crashed, walAtCrash, ackedAtCrash, admittedAtStop>>

\* (variant: the sub-batch runs to the end of the records)
SubBatch_ToTheEnd(rs, i) == SubSeq(rs, i + 1, Len(rs))

\* the sub-batch records[i:end] of replayWAL's loop
SubBatch(rs, i) == SubSeq(rs, i + 1, Min(i + replayBatchSize, Len(rs)))

\* (variant: the WAL cleared after the first committed sub-batch)
ReplayLoopHead_ClearEarly(i, rs) == "clear"

\* the head of replayWAL's loop: the next sub-batch, or Clear after the last
ReplayLoopHead(i, rs) == IF i < Len(rs) THEN "insert" ELSE "clear"

\* replayWAL: one insertWALRecords transaction; a failure returns without
\* clearing
ReplayInsert ==
    /\ mainPc # "exited"
    /\ hmPc = "insert"
    /\ IF storeUp
       THEN /\ store' = store \cup Range(SubBatch(records, replayIdx))
            /\ replayIdx' = replayIdx + replayBatchSize
            /\ hmPc' = ReplayLoopHead(replayIdx', records)
            /\ UNCHANGED <<records, replaysLeft>>
       ELSE /\ hmPc' = AfterReplay(replaysLeft)
            /\ replaysLeft' = replaysLeft - 1
            /\ records' = <<>>
            /\ replayIdx' = 0
            /\ UNCHANGED store
    /\ UNCHANGED <<startCheck, bpVars, cbVars, storeUp, walVars, isHealthy,
                   stopCh, mainVars, histVars>>

\* Clear: the file truncated to zero length and reopened
ClearFile(file) == <<>>

\* replayWAL: hm.wal.Clear() after every sub-batch committed
ReplayClear ==
    /\ mainPc # "exited"
    /\ hmPc = "clear"
    /\ walFile' = ClearFile(walFile)
    /\ walTorn' = FALSE
    /\ walOpen' = TRUE
    /\ hmPc' = AfterReplay(replaysLeft)
    /\ replaysLeft' = replaysLeft - 1
    /\ records' = <<>>
    /\ replayIdx' = 0
    /\ checkedSinceStart' = (checkedSinceStart \/ replaysLeft = 1)
    /\ UNCHANGED <<walMissing, walCalls, startCheck, calls, bpVars, cbVars,
                   storeVars, walConfigured, isHealthy, stopCh, mainVars,
                   admitted, drained, storeAttempts, crashed, walAtCrash,
                   ackedAtCrash, admittedAtStop>>

\* --------------------------------------------- replayWAL called directly
\* one replayWAL call on a WAL file left by an earlier outage; the calls it
\* makes on the WAL and the store are logged in calls
ReplayFiles ==
    UNION {{f \in [1..n -> 0..n] : \A i \in 1..n : f[i] \in {Garbage, i}} :
               n \in 0..MaxLines}

PassInit ==
    \E file \in ReplayFiles :
        /\ Boot(failureThreshold, file, "returned")
        /\ walConfigured

PassCalled(op, ok, recs) ==
    Append(calls, [op |-> op, ok |-> ok, recs |-> recs])

\* records, err := hm.wal.ReadAll(); return when there are none
PassReadAll ==
    /\ hmPc = "select"
    /\ calls = <<>>
    /\ walOpen' = TRUE
    /\ LET rs == ReadAll(walFile, walTorn)
       IN  /\ calls' = PassCalled("ReadAll", TRUE, rs)
           /\ IF Len(rs) = 0
              THEN /\ hmPc' = "returned"
                   /\ UNCHANGED <<records, replayIdx>>
              ELSE /\ records' = rs
                   /\ replayIdx' = 0
                   /\ hmPc' = "insert"
    /\ UNCHANGED <<bpVars, cbVars, storeVars, walConfigured, walFile,
                   walTorn, walMissing, walCalls, isHealthy, replaysLeft,
                   stopCh, startCheck, mainVars, admitted, drained,
                   storeAttempts, crashed, walAtCrash, ackedAtCrash,
                   admittedAtStop, checkedSinceStart>>

\* one turn of the loop: insertWALRecords(records[i:end]); a failure
\* returns without clearing
PassInsert ==
    /\ hmPc = "insert"
    /\ calls' = PassCalled("insertWALRecords", storeUp,
                           SubBatch(records, replayIdx))
    /\ IF storeUp
       THEN /\ store' = store \cup Range(SubBatch(records, replayIdx))
            /\ replayIdx' = replayIdx + replayBatchSize
            /\ hmPc' = ReplayLoopHead(replayIdx', records)
       ELSE /\ hmPc' = "returned"
            /\ UNCHANGED <<store, replayIdx>>
    /\ UNCHANGED <<bpVars, cbVars, storeUp, walVars, isHealthy, records,
                   replaysLeft, stopCh, startCheck, mainVars, admitted,
                   drained, storeAttempts, crashed, walAtCrash, ackedAtCrash,
                   admittedAtStop, checkedSinceStart>>

\* hm.wal.Clear() after the loop
PassClear ==
    /\ hmPc = "clear"
    /\ calls' = PassCalled("Clear", TRUE, <<>>)
    /\ walFile' = ClearFile(walFile)
    /\ walTorn' = FALSE
    /\ walOpen' = TRUE
    /\ hmPc' = "returned"
    /\ UNCHANGED <<bpVars, cbVars, storeVars, walConfigured, walMissing,
                   walCalls, isHealthy, records, replayIdx, replaysLeft,
                   stopCh, startCheck, mainVars, admitted, drained,
                   storeAttempts, crashed, walAtCrash, ackedAtCrash,
                   admittedAtStop, checkedSinceStart>>

\* --------------------------------- HealthMonitor.Start's own checkHealth
\* Start calls checkHealth itself after "go hm.monitorLoop()": that call
\* runs in main's goroutine, next to the loop's tick-driven calls

\* checkHealth: Ping, isHealthy updated under healthMutex
StartPing ==
    /\ startCheck.pc = "ping"
    /\ isHealthy' = storeUp
    /\ LET left == ReplayCalls(~storeUp, isHealthy)
       IN  startCheck' = [startCheck EXCEPT
                              !.left = left,
                              !.pc = IF left > 0 THEN "readAll"
                                     ELSE "returned"]
    /\ UNCHANGED <<bpVars, cbVars, storeVars, walVars, hmPc, records,
                   replayIdx, replaysLeft, stopCh, mainVars, histVars>>

\* where checkHealth goes on after a replayWAL call
StartAfterReplay(left) == IF left > 1 THEN "readAll" ELSE "returned"

\* replayWAL: hm.wal.ReadAll()
StartReadAll ==
    /\ startCheck.pc = "readAll"
    /\ walOpen' = TRUE
    /\ LET rs == ReadAll(walFile, walTorn)
       IN  IF Len(rs) = 0
           THEN /\ startCheck' =
                       [startCheck EXCEPT
                            !.pc = StartAfterReplay(startCheck.left),
                            !.left = @ - 1]
                /\ checkedSinceStart' =
                       (checkedSinceStart \/ startCheck.left = 1)
           ELSE /\ startCheck' = [startCheck EXCEPT !.pc = "insert",
                                                    !.records = rs,
                                                    !.idx = 0]
                /\ UNCHANGED checkedSinceStart
    /\ UNCHANGED <<walMissing, bpVars, cbVars, storeVars, walConfigured,
                   walFile, walTorn, walCalls, hmPc, isHealthy, records,
                   replayIdx, replaysLeft, stopCh, mainVars, admitted,
                   drained, storeAttempts, crashed, walAtCrash, ackedAtCrash,
                   admittedAtStop, calls>>

\* replayWAL: one iteration of the loop, insertWALRecords(batch)
StartInsert ==
    /\ startCheck.pc = "insert"
    /\ IF storeUp
       THEN /\ store' = store \cup
                            Range(SubBatch(startCheck.records, startCheck.idx))
            /\ LET i == startCheck.idx + replayBatchSize
               IN  startCheck' =
                       [startCheck EXCEPT
                            !.idx = i,
                            !.pc = ReplayLoopHead(i, startCheck.records)]
       ELSE /\ startCheck' =
                   [startCheck EXCEPT
                        !.pc = StartAfterReplay(startCheck.left),
                        !.left = @ - 1, !.records = <<>>, !.idx = 0]
            /\ UNCHANGED store
    /\ UNCHANGED <<bpVars, cbVars, storeUp, walVars, hmPc, isHealthy,
                   records, replayIdx, replaysLeft, stopCh, mainVars,
                   histVars>>

\* replayWAL: hm.wal.Clear()
StartClear ==
    /\ startCheck.pc = "clear"
    /\ walFile' = ClearFile(walFile)
    /\ walTorn' = FALSE
    /\ walOpen' = TRUE
    /\ startCheck' = [startCheck EXCEPT
                          !.pc = StartAfterReplay(startCheck.left),
                          !.left = @ - 1, !.records = <<>>, !.idx = 0]
    /\ checkedSinceStart' = (checkedSinceStart \/ startCheck.left = 1)
    /\ UNCHANGED <<walMissing, bpVars, cbVars, storeVars, walConfigured,
                   walCalls, hmPc, isHealthy, records, replayIdx, replaysLeft,
                   stopCh, mainVars, admitted, drained, storeAttempts,
                   crashed, walAtCrash, ackedAtCrash, admittedAtStop, calls>>

\* ---------------------------------------------------------- environment
StoreFail ==
    /\ storeUp
    /\ storeUp' = FALSE
    /\ UNCHANGED <<bpVars, cbVars, store, walVars, hmVars, mainVars,
                   histVars>>

StoreRecover ==
    /\ ~storeUp
    /\ storeUp' = TRUE
    /\ UNCHANGED <<bpVars, cbVars, store, walVars, hmVars, mainVars,
                   histVars>>

\* time passes: time.Since(cb.lastFailureTime) grows
Tick ==
    /\ sinceLastFailure < timeout
    /\ sinceLastFailure' = sinceLastFailure + 1
    /\ UNCHANGED <<bpVars, cb, storeVars, walVars, hmVars, mainVars,
                   histVars>>

\* ------------------------------------- the breaker driven directly
\* a breaker made by NewCircuitBreaker(threshold, timeout) whose methods are
\* called in any order by one caller, with time passing between the calls;
\* the rest of the service is at rest
BreakerInit ==
    \E threshold \in 0..MaxThreshold :
        /\ InitWith(threshold)
        /\ ~walConfigured

\* the call just made, added to the calls so far
Called(op, ok) == Append(calls, [op |-> op, ok |-> ok])

\* cb.Allow()
BreakerAllow ==
    /\ Len(calls) < MaxCalls
    /\ LET r == Allow(cb, sinceLastFailure)
       IN  /\ cb' = r.cb
           /\ calls' = Called("Allow", r.ok)
    /\ UNCHANGED <<bpVars, sinceLastFailure, storeVars, walVars, hmVars,
                   mainVars, admitted, drained, storeAttempts, crashed,
                   walAtCrash, ackedAtCrash, admittedAtStop,
                   checkedSinceStart>>

\* cb.RecordSuccess()
BreakerRecordSuccess ==
    /\ Len(calls) < MaxCalls
    /\ cb' = RecordSuccess(cb)
    /\ calls' = Called("RecordSuccess", TRUE)
    /\ UNCHANGED <<bpVars, sinceLastFailure, storeVars, walVars, hmVars,
                   mainVars, admitted, drained, storeAttempts, crashed,
                   walAtCrash, ackedAtCrash, admittedAtStop,
                   checkedSinceStart>>

\* cb.RecordFailure(): lastFailureTime = time.Now()
BreakerRecordFailure ==
    /\ Len(calls) < MaxCalls
    /\ cb' = RecordFailure(cb)
    /\ sinceLastFailure' = 0
    /\ calls' = Called("RecordFailure", TRUE)
    /\ UNCHANGED <<bpVars, storeVars, walVars, hmVars, mainVars, admitted,
                   drained, storeAttempts, crashed, walAtCrash, ackedAtCrash,
                   admittedAtStop, checkedSinceStart>>

\* cb.Reset(): lastFailureTime = time.Time{}
BreakerReset ==
    /\ Len(calls) < MaxCalls
    /\ cb' = Reset(cb)
    /\ sinceLastFailure' = timeout
    /\ calls' = Called("Reset", TRUE)
    /\ UNCHANGED <<bpVars, storeVars, walVars, hmVars, mainVars, admitted,
                   drained, storeAttempts, crashed, walAtCrash, ackedAtCrash,
                   admittedAtStop, checkedSinceStart>>

\* cb.State()
BreakerState ==
    /\ Len(calls) < MaxCalls
    /\ cb' = [cb EXCEPT !.state = State(cb)]
    /\ calls' = Called("State", TRUE)
    /\ UNCHANGED <<bpVars, sinceLastFailure, storeVars, walVars, hmVars,
                   mainVars, admitted, drained, storeAttempts, crashed,
                   walAtCrash, ackedAtCrash, admittedAtStop,
                   checkedSinceStart>>

\* ----------------------------------------- the WAL driven directly
\* one WAL file and the WAL instance of the running process, the methods
\* called one at a time; the k-th Write call carries record k
WALInit == Init /\ walConfigured

\* everything but the WAL and the calls made on it
besideWAL == <<bpVars, cbVars, storeVars, walConfigured, walMissing,
               walCalls, hmVars, mainVars, admitted, drained, storeAttempts,
               crashed, walAtCrash, ackedAtCrash, admittedAtStop,
               checkedSinceStart>>

\* the record the next Write call carries
NextRecord == 1 + Cardinality({i \in 1..Len(calls) : calls[i].op = "Write"})

\* the call just made, added to the calls so far: r the record written,
\* recs the records returned, n the number returned
WALCalled(op, ok, r, recs, n) ==
    Append(calls, [op |-> op, ok |-> ok, r |-> r, recs |-> recs, n |-> n])

\* Size: the length of the file, counted in lines, a partial tail included
Size(file, torn) == Len(file) + (IF torn THEN 1 ELSE 0)

\* Count: len of what ReadAll returns
Count(file, torn) == Len(ReadAll(file, torn))

\* w.Write(record): an error on a closed handle
WALWrite ==
    /\ Len(calls) < MaxCalls
    /\ IF walOpen
       THEN /\ walFile' = WALWriteLine(walFile, walTorn, NextRecord)
            /\ walTorn' = FALSE
       ELSE UNCHANGED <<walFile, walTorn>>
    /\ calls' = WALCalled("Write", walOpen, NextRecord, <<>>, 0)
    /\ UNCHANGED <<bufferMutex, walOpen, besideWAL>>

\* the process dies inside w.file.Write, part of the record's bytes in the
\* file and no newline; the next process opens the same path
WALCrashInWrite ==
    /\ Len(calls) < MaxCalls
    /\ walOpen
    /\ walFile' = NewWALFile(walFile)
    /\ walTorn' = TRUE
    /\ walOpen' = TRUE
    /\ calls' = WALCalled("CrashInWrite", FALSE, 0, <<>>, 0)
    /\ UNCHANGED besideWAL

\* NewWAL(path) on the same path, the old instance closed or abandoned
WALNew ==
    /\ Len(calls) < MaxCalls
    /\ walFile' = NewWALFile(walFile)
    /\ walOpen' = TRUE
    /\ calls' = WALCalled("NewWAL", TRUE, 0, <<>>, 0)
    /\ UNCHANGED <<bufferMutex, walTorn, besideWAL>>

\* w.ReadAll(): closes the handle, reads the file, reopens for append
WALReadAll ==
    /\ Len(calls) < MaxCalls
    /\ walOpen' = TRUE
    /\ calls' = WALCalled("ReadAll", TRUE, 0, ReadAll(walFile, walTorn), 0)
    /\ UNCHANGED <<bufferMutex, walFile, walTorn, besideWAL>>

\* w.Clear(): truncates to length 0 and reopens for append
WALClear ==
    /\ Len(calls) < MaxCalls
    /\ walFile' = ClearFile(walFile)
    /\ walTorn' = FALSE
    /\ walOpen' = TRUE
    /\ calls' = WALCalled("Clear", TRUE, 0, <<>>, 0)
    /\ UNCHANGED besideWAL

\* w.Size()
WALSize ==
    /\ Len(calls) < MaxCalls
    /\ calls' = WALCalled("Size", TRUE, 0, <<>>, Size(walFile, walTorn))
    /\ UNCHANGED <<bufferMutex, walFile, walTorn, walOpen, besideWAL>>

\* w.Count(): ReadAll and the length of its result
WALCount ==
    /\ Len(calls) < MaxCalls
    /\ walOpen' = TRUE
    /\ calls' = WALCalled("Count", TRUE, 0, <<>>, Count(walFile, walTorn))
    /\ UNCHANGED <<bufferMutex, walFile, walTorn, besideWAL>>

\* w.Close(), called directly: an error on a handle that is closed already
WALCloseCall ==
    /\ Len(calls) < MaxCalls
    /\ walOpen' = FALSE
    /\ calls' = WALCalled("Close", walOpen, 0, <<>>, 0)
    /\ UNCHANGED <<bufferMutex, walFile, walTorn, besideWAL>>

\* ------------------------- the WAL driven directly, with file errors
\* the methods called one at a time on a file that the environment may
\* remove and whose reads and truncations may fail
besideFile == <<bpVars, cbVars, storeVars, walConfigured, walCalls, hmVars,
                mainVars, admitted, drained, storeAttempts, crashed,
                walAtCrash, ackedAtCrash, admittedAtStop, checkedSinceStart>>

\* the file at w.filePath is removed; an open handle stays open
FileRemoved ==
    /\ Len(calls) < MaxCalls
    /\ ~walMissing
    /\ walMissing' = TRUE
    /\ walFile' = <<>>
    /\ walTorn' = FALSE
    /\ calls' = WALCalled("remove", TRUE, 0, <<>>, 0)
    /\ UNCHANGED <<bufferMutex, walOpen, besideFile>>

\* w.Write(record): an error on a closed handle; through a handle on a
\* removed file the bytes reach no file at w.filePath
FileWrite ==
    /\ Len(calls) < MaxCalls
    /\ IF walOpen /\ ~walMissing
       THEN /\ walFile' = WALWriteLine(walFile, walTorn, NextRecord)
            /\ walTorn' = FALSE
       ELSE UNCHANGED <<walFile, walTorn>>
    /\ calls' = WALCalled("Write", walOpen, NextRecord, <<>>, 0)
    /\ UNCHANGED <<bufferMutex, walOpen, walMissing, besideFile>>

\* w.ReadAll(): w.file.Close(), os.ReadFile; a missing file returns no
\* records and nil, another read error returns the error, both before the
\* file is reopened
FileReadAll ==
    /\ Len(calls) < MaxCalls
    /\ \E readError \in BOOLEAN :
           IF walMissing
           THEN /\ walOpen' = FALSE
                /\ calls' = WALCalled("ReadAll", TRUE, 0, <<>>, 0)
           ELSE IF readError
           THEN /\ walOpen' = FALSE
                /\ calls' = WALCalled("ReadAll", FALSE, 0, <<>>, 0)
           ELSE /\ walOpen' = TRUE
                /\ calls' = WALCalled("ReadAll", TRUE, 0,
                                      ReadAll(walFile, walTorn), 0)
    /\ UNCHANGED <<bufferMutex, walFile, walTorn, walMissing, besideFile>>

\* w.Clear(): w.file.Close(), os.Truncate; when the truncation fails (the
\* file is missing, or another error) the error is returned before the
\* file is reopened
FileClear ==
    /\ Len(calls) < MaxCalls
    /\ \E truncateError \in BOOLEAN :
           IF walMissing \/ truncateError
           THEN /\ walOpen' = FALSE
                /\ calls' = WALCalled("Clear", FALSE, 0, <<>>, 0)
                /\ UNCHANGED <<walFile, walTorn, walMissing>>
           ELSE /\ walFile' = ClearFile(walFile)
                /\ walTorn' = FALSE
                /\ walOpen' = TRUE
                /\ calls' = WALCalled("Clear", TRUE, 0, <<>>, 0)
                /\ UNCHANGED walMissing
    /\ UNCHANGED besideFile

\* NewWAL(path): O_CREATE makes the file when it is missing
FileNew ==
    /\ Len(calls) < MaxCalls
    /\ walFile' = NewWALFile(walFile)
    /\ walMissing' = FALSE
    /\ walOpen' = TRUE
    /\ calls' = WALCalled("NewWAL", TRUE, 0, <<>>, 0)
    /\ UNCHANGED <<bufferMutex, walTorn, besideFile>>

\* ------------------------------ the WAL called by concurrent goroutines
\* every method locks w.mu first and unlocks it on return (defer); the
\* steps between are the method's file operations
LockInit == Init /\ walConfigured

\* everything but the WAL
besideLock == <<bpVars, cbVars, storeVars, walConfigured, walMissing,
                hmVars, mainVars, histVars>>

\* (variant: Lock returns whoever holds w.mu)
MuFree_NoExclusion(m) == TRUE

\* w.mu.Lock() returns only when nobody holds w.mu
MuFree(m) == m = 0

\* the record of appender g's m-th Write call
RecordOf(g, m) == g + MaxAppenders * (m - 1)

\* the record appender g is writing
Current(g) == RecordOf(g, MaxAppends - walCalls.left[g] + 1)

\* the contents the file had at some moment of the reader's current call
Seen(file) ==
    IF walCalls.pc[Reader] = "idle" THEN walCalls.seen
    ELSE walCalls.seen \cup {file}

\* Write: w.mu.Lock(), json.Marshal
WriteLock(g) ==
    /\ walCalls.pc[g] = "idle"
    /\ walCalls.left[g] > 0
    /\ MuFree(walCalls.mu)
    /\ walCalls' = [walCalls EXCEPT !.mu = g, !.pc[g] = "write"]
    /\ UNCHANGED <<bufferMutex, walFile, walTorn, walOpen, besideLock>>

\* Write: w.file.Write(data); on an error the method returns it
WriteFile(g) ==
    /\ walCalls.pc[g] = "write"
    /\ IF walOpen
       THEN /\ walFile' = WALWriteLine(walFile, walTorn, Current(g))
            /\ walTorn' = FALSE
            /\ walCalls' = [walCalls EXCEPT !.pc[g] = "sync",
                                            !.seen = Seen(walFile')]
       ELSE /\ walCalls' = [walCalls EXCEPT !.pc[g] = "idle", !.mu = 0,
                                            !.left[g] = @ - 1]
            /\ UNCHANGED <<walFile, walTorn>>
    /\ UNCHANGED <<bufferMutex, walOpen, besideLock>>

\* Write: w.file.Sync(), return nil, the deferred Unlock
WriteReturn(g) ==
    /\ walCalls.pc[g] = "sync"
    /\ walCalls' = [walCalls EXCEPT !.pc[g] = "idle", !.mu = 0,
                                    !.left[g] = @ - 1,
                                    !.acked = @ \cup {Current(g)}]
    /\ UNCHANGED <<bufferMutex, walFile, walTorn, walOpen, besideLock>>

\* ReadAll: w.mu.Lock(), w.file.Close()
ReadLock ==
    /\ walCalls.pc[Reader] = "idle"
    /\ MuFree(walCalls.mu)
    /\ walOpen' = FALSE
    /\ walCalls' = [walCalls EXCEPT !.mu = Reader, !.pc[Reader] = "read",
                                    !.chunk = <<>>, !.recs = <<>>,
                                    !.hasRead = FALSE, !.seen = {walFile}]
    /\ UNCHANGED <<bufferMutex, walFile, walTorn, besideLock>>

\* ReadAll: os.ReadFile's first read returns some of the file
ReadFirst ==
    /\ walCalls.pc[Reader] = "read"
    /\ \E k \in 0..Len(walFile) :
           walCalls' = [walCalls EXCEPT !.pc[Reader] = "readMore",
                                        !.chunk = SubSeq(walFile, 1, k)]
    /\ UNCHANGED <<bufferMutex, walFile, walTorn, walOpen, besideLock>>

\* ReadAll: os.ReadFile reads on from its offset to the end of the file;
\* os.OpenFile for append
ReadRest ==
    /\ walCalls.pc[Reader] = "readMore"
    /\ walOpen' = TRUE
    /\ walCalls' =
           [walCalls EXCEPT !.pc[Reader] = "parse",
                            !.chunk = @ \o SubSeq(walFile, Len(@) + 1,
                                                  Len(walFile))]
    /\ UNCHANGED <<bufferMutex, walFile, walTorn, besideLock>>

\* ReadAll: the lines parsed, return records, the deferred Unlock
ReadReturn ==
    /\ walCalls.pc[Reader] = "parse"
    /\ walCalls' = [walCalls EXCEPT !.pc[Reader] = "idle", !.mu = 0,
                                    !.recs = ParsedLines(walCalls.chunk),
                                    !.hasRead = TRUE]
    /\ UNCHANGED <<bufferMutex, walFile, walTorn, walOpen, besideLock>>

\* Clear: w.mu.Lock(), w.file.Close()
ClearLock ==
    /\ walCalls.pc[Clearer] = "idle"
    /\ MuFree(walCalls.mu)
    /\ walOpen' = FALSE
    /\ walCalls' = [walCalls EXCEPT !.mu = Clearer,
                                    !.pc[Clearer] = "truncate"]
    /\ UNCHANGED <<bufferMutex, walFile, walTorn, besideLock>>

\* Clear: os.Truncate(w.filePath, 0)
ClearTruncate ==
    /\ walCalls.pc[Clearer] = "truncate"
    /\ walFile' = ClearFile(walFile)
    /\ walTorn' = FALSE
    /\ walCalls' = [walCalls EXCEPT !.pc[Clearer] = "reopen",
                                    !.acked = {}, !.cleared = TRUE,
                                    !.seen = Seen(walFile')]
    /\ UNCHANGED <<bufferMutex, walOpen, besideLock>>

\* Clear: os.OpenFile for append, return nil, the deferred Unlock
ClearReturn ==
    /\ walCalls.pc[Clearer] = "reopen"
    /\ walOpen' = TRUE
    /\ walCalls' = [walCalls EXCEPT !.pc[Clearer] = "idle", !.mu = 0]
    /\ UNCHANGED <<bufferMutex, walFile, walTorn, besideLock>>

\* ------------------------------------- a sample through the WAL and back
\* an optional field is a *float64: <<>> is nil, <<v>> points to v
PositionFields == {"Latitude", "Longitude", "AltitudeKM", "VelocityKMPH"}
RequiredFields == {"Timestamp", "SatelliteID", "BatteryChargePercent",
                   "StorageUsageMB", "SignalStrengthDBM", "IsAnomaly"}
Fields == RequiredFields \cup PositionFields

\* the optional values tried: absent, an explicit 0.0, another value
Pointers == {<<>>, <<0>>, <<1>>}

\* models.TelemetryPoint values as they sit in the buffer
TelemetryPoints ==
    [Timestamp : {1}, SatelliteID : {"SAT-1"},
     BatteryChargePercent : {0, 1}, StorageUsageMB : {1},
     SignalStrengthDBM : {1}, IsAnomaly : BOOLEAN,
     Latitude : Pointers, Longitude : Pointers, AltitudeKM : Pointers,
     VelocityKMPH : Pointers]

\* flushToWAL's struct literal: the fields it does not name are nil
WALRecordOf(point) ==
    [k \in Fields |-> IF k \in PositionFields THEN <<>> ELSE point[k]]

\* json.Marshal of a WALRecord: the object's keys and values; a nil pointer
\* with omitempty is left out, a pointer to 0.0 is not
Marshal(record) ==
    [k \in {f \in Fields : f \in PositionFields => record[f] # <<>>} |->
        IF k \in PositionFields THEN record[k][1] ELSE record[k]]

\* json.Unmarshal into a zero WALRecord: a key that is missing leaves nil
Unmarshal(line) ==
    [k \in Fields |->
        IF k \in PositionFields
        THEN IF k \in DOMAIN line THEN <<line[k]>> ELSE <<>>
        ELSE line[k]]

CodecInit == Init /\ walConfigured

\* the flushes of a sample so far
RoundTrips ==
    Cardinality({i \in 1..Len(calls) : calls[i].op = "flushToWAL"})

\* bp.flushToWAL([point]): the line that wal.Write puts in the file
PointFlushToWAL ==
    /\ RoundTrips < MaxRoundTrips
    /\ IF calls = <<>> THEN TRUE ELSE calls[Len(calls)].op = "ReadAll"
    /\ \E point \in TelemetryPoints :
           calls' = Append(calls, [op |-> "flushToWAL", point |-> point,
                                   line |-> Marshal(WALRecordOf(point)),
                                   record |-> WALRecordOf(point)])
    /\ UNCHANGED <<bpVars, cbVars, storeVars, walVars, hmVars, mainVars,
                   admitted, drained, storeAttempts, crashed, walAtCrash,
                   ackedAtCrash, admittedAtStop, checkedSinceStart>>

\* wal.ReadAll(): the line parsed back into a WALRecord
PointReadAll ==
    /\ calls # <<>>
    /\ calls[Len(calls)].op = "flushToWAL"
    /\ LET last == calls[Len(calls)]
       IN  calls' = Append(calls, [op |-> "ReadAll", point |-> last.point,
                                   line |-> last.line,
                                   record |-> Unmarshal(last.line)])
    /\ UNCHANGED <<bpVars, cbVars, storeVars, walVars, hmVars, mainVars,
                   admitted, drained, storeAttempts, crashed, walAtCrash,
                   ackedAtCrash, admittedAtStop, checkedSinceStart>>

\* ------------------------------------------------ the anomaly classifier
\* telemetry values and thresholds, around and at one another
Levels == (0 - MaxLevel)..MaxLevel

AnomalyConfigs ==
    [BatteryMinPercent : Levels, StorageMaxMB : Levels, SignalMinDBM : Levels]

Readings ==
    [BatteryChargePercent : Levels, StorageUsageMB : Levels,
     SignalStrengthDBM : Levels]

\* (variant: a battery level at its threshold counts as low)
detectAnomaly_AtThreshold(point, anomalyConfig) ==
    IF point.BatteryChargePercent <= anomalyConfig.BatteryMinPercent
    THEN TRUE
    ELSE IF point.StorageUsageMB > anomalyConfig.StorageMaxMB
    THEN TRUE
    ELSE IF point.SignalStrengthDBM < anomalyConfig.SignalMinDBM
    THEN TRUE
    ELSE FALSE

\* detectAnomaly: the three checks in order, each returning true at once
detectAnomaly(point, anomalyConfig) ==
    IF point.BatteryChargePercent < anomalyConfig.BatteryMinPercent
    THEN TRUE
    ELSE IF point.StorageUsageMB > anomalyConfig.StorageMaxMB
    THEN TRUE
    ELSE IF point.SignalStrengthDBM < anomalyConfig.SignalMinDBM
    THEN TRUE
    ELSE FALSE

\* the "ANOMALY: ..." lines that detectAnomaly logs: the first condition
\* that triggers logs its line, and no later one is evaluated
AnomalyLogs(point, anomalyConfig) ==
    IF point.BatteryChargePercent < anomalyConfig.BatteryMinPercent
    THEN <<"battery critically low">>
    ELSE IF point.StorageUsageMB > anomalyConfig.StorageMaxMB
    THEN <<"storage critically high">>
    ELSE IF point.SignalStrengthDBM < anomalyConfig.SignalMinDBM
    THEN <<"signal critically weak">>
    ELSE <<>>

\* NewBatchProcessor with some thresholds
ClassifierNew ==
    /\ calls = <<>>
    /\ \E anomalyConfig \in AnomalyConfigs :
           calls' = <<[op |-> "NewBatchProcessor", config |-> anomalyConfig]>>
    /\ UNCHANGED <<bpVars, cbVars, storeVars, walVars, hmVars, mainVars,
                   admitted, drained, storeAttempts, crashed, walAtCrash,
                   ackedAtCrash, admittedAtStop, checkedSinceStart>>

\* bp.detectAnomaly(point); of the calls made only the latest is kept
ClassifierDetect ==
    /\ calls # <<>>
    /\ \E point \in Readings :
           calls' = <<calls[1],
                      [op |-> "detectAnomaly", point |-> point,
                       result |-> detectAnomaly(point, calls[1].config),
                       logs |-> AnomalyLogs(point, calls[1].config)]>>
    /\ UNCHANGED <<bpVars, cbVars, storeVars, walVars, hmVars, mainVars,
                   admitted, drained, storeAttempts, crashed, walAtCrash,
                   ackedAtCrash, admittedAtStop, checkedSinceStart>>

\* ------------------------------------------------- the retry backoff
\* bp.retryDelay, in milliseconds
retryDelay == 1000

\* the quotient rounded toward zero, as the conversion to time.Duration
Trunc(a, b) == IF a >= 0 THEN a \div b ELSE -((-a) \div b)

\* time.Now().UnixNano() % 1000, from which randFloat64 is nanos / 1000.0
ClockNanos == 0..999

\* delay := bp.retryDelay * time.Duration(1<<uint(attempt))
Delay(k) == retryDelay * 2^k

\* (variant: twice the jitter)
Jitter_Double(delay, nanos) == Trunc(delay * 4 * (2 * nanos - 1000), 10000)

\* jitter := time.Duration(float64(delay) * 0.2 * (2.0*randFloat64() - 1.0))
Jitter(delay, nanos) == Trunc(delay * 2 * (2 * nanos - 1000), 10000)

\* "if attempt < bp.maxRetries-1": the backoff is skipped on the last attempt
SleepsAfter(k, retries) == k < retries - 1

\* -1, 0 or 1
Sign(x) == IF x < 0 THEN -1 ELSE IF x > 0 THEN 1 ELSE 0

\* a writer with maxRetries set by SetRetryConfig; of the steps of its
\* flushWithRetry only the latest is kept, with the signs of the jitters
\* drawn so far
BackoffNew ==
    /\ calls = <<>>
    /\ \E retries \in 1..MaxTries :
           calls' = <<[op |-> "SetRetryConfig", maxRetries |-> retries],
                      [op |-> "flushWithRetry", attempt |-> -1, d |-> 0,
                       signs |-> {}]>>
    /\ UNCHANGED <<bpVars, cbVars, storeVars, walVars, hmVars, mainVars,
                   admitted, drained, storeAttempts, crashed, walAtCrash,
                   ackedAtCrash, admittedAtStop, checkedSinceStart>>

\* the next attempt's insertBatch fails
BackoffAttemptFails ==
    /\ Len(calls) = 2
    /\ calls[2].op \in {"flushWithRetry", "Sleep"}
    /\ calls[2].attempt + 1 < calls[1].maxRetries
    /\ calls' = <<calls[1],
                  [calls[2] EXCEPT !.op = "insertBatch",
                                   !.attempt = @ + 1, !.d = 0]>>
    /\ UNCHANGED <<bpVars, cbVars, storeVars, walVars, hmVars, mainVars,
                   admitted, drained, storeAttempts, crashed, walAtCrash,
                   ackedAtCrash, admittedAtStop, checkedSinceStart>>

\* time.Sleep(delay + jitter) unless it was the last attempt
BackoffSleep ==
    /\ Len(calls) = 2
    /\ calls[2].op = "insertBatch"
    /\ SleepsAfter(calls[2].attempt, calls[1].maxRetries)
    /\ \E nanos \in ClockNanos :
           LET delay == Delay(calls[2].attempt)
               jitter == Jitter(delay, nanos)
           IN  calls' = <<calls[1],
                          [calls[2] EXCEPT !.op = "Sleep",
                                           !.d = delay + jitter,
                                           !.signs = @ \cup {Sign(jitter)}]>>
    /\ UNCHANGED <<bpVars, cbVars, storeVars, walVars, hmVars, mainVars,
                   admitted, drained, storeAttempts, crashed, walAtCrash,
                   ackedAtCrash, admittedAtStop, checkedSinceStart>>

\* the loop left after the last attempt: flushToWAL(batch)
BackoffToWAL ==
    /\ Len(calls) = 2
    /\ calls[2].op = "insertBatch"
    /\ ~SleepsAfter(calls[2].attempt, calls[1].maxRetries)
    /\ calls' = <<calls[1], [calls[2] EXCEPT !.op = "flushToWAL"]>>
    /\ UNCHANGED <<bpVars, cbVars, storeVars, walVars, hmVars, mainVars,
                   admitted, drained, storeAttempts, crashed, walAtCrash,
                   ackedAtCrash, admittedAtStop, checkedSinceStart>>

\* ------------------------------------------------------ main: shutdown
\* <-quit
Signal ==
    /\ mainPc = "serving"
    /\ mainPc' = IF walConfigured THEN "hmStop" ELSE "bpStop"
    /\ UNCHANGED <<bpVars, cbVars, storeVars, walVars, hmVars, nextId,
                   lastStatus, histVars>>

\* healthMonitor.Stop(): close(hm.stopCh)
HMStopClose ==
    /\ mainPc = "hmStop"
    /\ stopCh' = TRUE
    /\ mainPc' = "hmWait"
    /\ UNCHANGED <<startCheck, bpVars, cbVars, storeVars, walVars, hmPc,
                   isHealthy, records, replayIdx, replaysLeft, nextId,
                   lastStatus, histVars>>

\* healthMonitor.Stop(): hm.wg.Wait()
HMStopWait ==
    /\ mainPc = "hmWait"
    /\ hmPc = "returned"
    /\ mainPc' = "bpStop"
    /\ UNCHANGED <<bpVars, cbVars, storeVars, walVars, hmVars, nextId,
                   lastStatus, histVars>>

\* batchProcessor.Stop(): close(bp.done); Stop returns at once
BPStop ==
    /\ mainPc = "bpStop"
    /\ done' = TRUE
    /\ mainPc' = "walClose"
    /\ admittedAtStop' = Range(admitted)
    /\ UNCHANGED <<bufferMutex, calls, buffer, pending, fpc, batch, attempt,
                   allowed, walIdx, final, cbVars, storeVars, walVars, hmVars,
                   nextId, lastStatus, admitted, drained, storeAttempts,
                   crashed, walAtCrash, ackedAtCrash, checkedSinceStart>>

\* wal.Close()
WALClose ==
    /\ mainPc = "walClose"
    /\ walOpen' = FALSE
    /\ mainPc' = "shutdown"
    /\ UNCHANGED <<walMissing, walCalls, bpVars, cbVars, storeVars,
                   walConfigured, walFile, walTorn, hmVars, nextId,
                   lastStatus, histVars>>

\* server.Shutdown(ctx) and return from main; with a health monitor its
\* deferred Stop runs before the process exits
ServerShutdown ==
    /\ mainPc = "shutdown"
    /\ mainPc' = IF walConfigured THEN "deferredStop" ELSE "exited"
    /\ UNCHANGED <<bpVars, cbVars, storeVars, walVars, hmVars, nextId,
                   lastStatus, histVars>>

\* "defer healthMonitor.Stop()": close(hm.stopCh) once more, which panics
\* on a closed channel; either way the process ends
DeferredHMStop ==
    /\ mainPc = "deferredStop"
    /\ stopCh' = TRUE
    /\ mainPc' = "exited"
    /\ UNCHANGED <<startCheck, bpVars, cbVars, storeVars, walVars, hmPc,
                   isHealthy, records, replayIdx, replaysLeft, nextId,
                   lastStatus, histVars>>

\* ------------------------------------------------- crash and restart
\* the process dies and main runs again on the same WAL path: memory is
\* gone, the file is kept; a Write cut short leaves a partial last record
Crash ==
    /\ mainPc = "serving"
    /\ ~crashed
    /\ crashed' = TRUE
    /\ walAtCrash' = Range(ParsedLines(walFile))
    /\ ackedAtCrash' = Range(admitted)
    /\ checkedSinceStart' = FALSE
    /\ buffer' = <<>>
    /\ pending' = 0
    /\ fpc' = [g \in Flushers |-> IF g = 0 THEN "select" ELSE "idle"]
    /\ batch' = [g \in Flushers |-> <<>>]
    /\ attempt' = [g \in Flushers |-> 0]
    /\ allowed' = [g \in Flushers |-> "none"]
    /\ walIdx' = [g \in Flushers |-> 0]
    /\ storeAttempts' = [g \in Flushers |-> 0]
    /\ cb' = NewCircuitBreaker(failureThreshold)
    /\ sinceLastFailure' = timeout
    /\ walFile' = NewWALFile(walFile)
    /\ walTorn' \in IF \E g \in Flushers : fpc[g] = "wal" /\ walConfigured
                    THEN BOOLEAN ELSE {FALSE}
    /\ walOpen' = walConfigured
    /\ hmPc' = IF walConfigured THEN "select" ELSE "absent"
    /\ isHealthy' = FALSE
    /\ records' = <<>>
    /\ replayIdx' = 0
    /\ replaysLeft' = 0
    /\ admitted' = <<>>
    /\ drained' = <<>>
    /\ UNCHANGED <<bufferMutex, walMissing, walCalls, startCheck, calls, done,
                   final, storeVars, walConfigured, stopCh, mainVars,
                   admittedAtStop>>

\* ------------------------------------------------------- specifications
FlushStep(g) ==
    \/ CallAllow(g)
    \/ InsertBatch(g)
    \/ CallRecordSuccess(g)
    \/ CallRecordFailure(g)
    \/ Sleep(g)
    \/ FlushToWAL(g)

MonitorStep ==
    \/ HMTick
    \/ ReplayReadAll
    \/ ReplayInsert
    \/ ReplayClear

\* the service running: admissions, flushes, outages, replays
Next ==
    \/ HandleTelemetry
    \/ TickerFire
    \/ TickerFlush
    \/ SpawnedFlush
    \/ \E g \in Flushers : FlushStep(g)
    \/ MonitorStep
    \/ StoreFail
    \/ StoreRecover
    \/ Tick

Spec == Init /\ [][Next]_vars

\* the service running and then shut down by main
ShutdownNext ==
    \/ Next
    \/ SelectDone
    \/ HMSelectStop
    \/ Signal
    \/ HMStopClose
    \/ HMStopWait
    \/ BPStop
    \/ WALClose
    \/ ServerShutdown
    \/ DeferredHMStop

ShutdownSpec == Init /\ [][ShutdownNext]_vars

\* a breaker on its own, its methods called in any order
BreakerNext ==
    \/ BreakerAllow
    \/ BreakerRecordSuccess
    \/ BreakerRecordFailure
    \/ BreakerReset
    \/ BreakerState
    \/ Tick

BreakerSpec == BreakerInit /\ [][BreakerNext]_vars

\* the WAL alone, its methods called in any order, with crashes inside Write
WALNext ==
    \/ WALWrite
    \/ WALCrashInWrite
    \/ WALNew
    \/ WALReadAll
    \/ WALClear
    \/ WALSize
    \/ WALCount
    \/ WALCloseCall

WALSpec == WALInit /\ [][WALNext]_vars

\* the WAL alone, called by appenders, a reader and a clearer concurrently
LockNext ==
    \/ \E g \in Appenders : WriteLock(g) \/ WriteFile(g) \/ WriteReturn(g)
    \/ ReadLock
    \/ ReadFirst
    \/ ReadRest
    \/ ReadReturn
    \/ ClearLock
    \/ ClearTruncate
    \/ ClearReturn

LockSpec == LockInit /\ [][LockNext]_vars

\* samples taken through flushToWAL and ReadAll, one at a time
CodecNext ==
    \/ PointFlushToWAL
    \/ PointReadAll

CodecSpec == CodecInit /\ [][CodecNext]_vars

\* a processor with any thresholds classifying any readings
ClassifierNext ==
    \/ ClassifierNew
    \/ ClassifierDetect

ClassifierSpec == Init /\ [][ClassifierNext]_vars

\* the WAL files a previous run can have left: its first n samples
LeftoverFiles == {[i \in 1..n |-> i] : n \in 0..MaxSamples}

\* main up to healthMonitor.Start(): the monitor loop is running and Start
\* is about to make its own checkHealth call; no request is served yet
StartupInit ==
    \E file \in LeftoverFiles :
        /\ Boot(failureThreshold, file, "ping")
        /\ walConfigured

StartupNext ==
    \/ StartPing
    \/ StartReadAll
    \/ StartInsert
    \/ StartClear
    \/ HMTick
    \/ ReplayReadAll
    \/ ReplayInsert
    \/ ReplayClear
    \/ StoreFail
    \/ StoreRecover

StartupSpec == StartupInit /\ [][StartupNext]_vars

\* the service from a fresh start with a WAL, the store working until it
\* starts to fail every write and ping; it does not recover
OutageInit == Init /\ walConfigured

OutageNext ==
    \/ HandleTelemetry
    \/ TickerFire
    \/ TickerFlush
    \/ SpawnedFlush
    \/ \E g \in Flushers : FlushStep(g)
    \/ HMTick
    \/ ReplayReadAll
    \/ ReplayInsert
    \/ StoreFail
    \/ Tick

OutageSpec == OutageInit /\ [][OutageNext]_vars

\* the WAL alone on a file that can go missing or fail
FileNext ==
    \/ FileRemoved
    \/ FileWrite
    \/ FileReadAll
    \/ FileClear
    \/ FileNew

FileSpec == WALInit /\ [][FileNext]_vars

\* one replayWAL call, the store failing and recovering meanwhile
PassNext ==
    \/ PassReadAll
    \/ PassInsert
    \/ PassClear
    \/ StoreFail
    \/ StoreRecover

PassSpec == PassInit /\ [][PassNext]_vars

\* one flushWithRetry call whose attempts all fail
BackoffNext ==
    \/ BackoffNew
    \/ BackoffAttemptFails
    \/ BackoffSleep
    \/ BackoffToWAL

BackoffSpec == Init /\ [][BackoffNext]_vars

\* the writer with bp.bufferMutex modelled: Add and flush take and release
\* the mutex in steps of their own, next to flushWithRetry's I/O steps
MutexNext ==
    \/ MuAddLock
    \/ MuAdd
    \/ TickerFire
    \/ MuTickerLock
    \/ MuSpawnedLock
    \/ \E g \in Flushers : MuCopy(g) \/ FlushStep(g)
    \/ StoreFail
    \/ StoreRecover
    \/ Tick

MutexSpec == Init /\ [][MutexNext]_vars

\* the writer serving single posts and then one batch request, the store
\* reachable throughout
BatchNext ==
    \/ (calls = <<>> /\ HandleTelemetry)
    \/ BatchPost
    \/ BatchAdd
    \/ BatchRespond
    \/ TickerFire
    \/ TickerFlush
    \/ SpawnedFlush
    \/ \E g \in Flushers :
           CallAllow(g) \/ InsertBatch(g) \/ CallRecordSuccess(g)

BatchSpec == Init /\ [][BatchNext]_vars

\* the service running, with one crash and restart
CrashNext ==
    \/ Next
    \/ Crash

CrashSpec == Init /\ [][CrashNext]_vars

\* the service running with every goroutine scheduled again and again: the
\* tickers keep firing, started flushes and replays run on, time passes
Fairness ==
    /\ WF_vars(TickerFire)
    /\ WF_vars(TickerFlush)
    /\ WF_vars(SpawnedFlush)
    /\ \A g \in Flushers : WF_vars(FlushStep(g))
    /\ WF_vars(MonitorStep)
    /\ WF_vars(Tick)

LiveSpec == Init /\ [][Next]_vars /\ Fairness


\* ------------------------------------------------------------ properties
\* where the samples are
InBuffer == Range(buffer)
InBatches == UNION {Range(batch[g]) : g \in Flushers}
InWAL == Range(ParsedLines(walFile))

\* goroutines inside flushWithRetry
InFlushWithRetry ==
    {g \in Flushers :
        fpc[g] \in {"allow", "insert", "success", "failure", "sleep", "wal"}}

\* C5: for any interleaving of admissions and flushes the buffer holds
\* between 0 and maxBufferSize samples at every moment
C5_BufferBound == Len(buffer) >= 0 /\ Len(buffer) <= maxBufferSize

\* the buffer has filled up to its capacity
C5_Witness == Len(buffer) = maxBufferSize /\ lastStatus = 202

\* C6: an admission attempted while the buffer holds maxBufferSize samples
\* is answered 503 and changes nothing: the buffer is as before, nothing is
\* enqueued and no flush goroutine is started
C6_RejectWhenFull ==
    [][(nextId' = nextId + 1 /\ Len(buffer) >= maxBufferSize)
          => /\ lastStatus' = 503
             /\ buffer' = buffer
             /\ admitted' = admitted
             /\ pending' = pending
             /\ fpc' = fpc]_vars

\* a sample has just been rejected by a full buffer
C6_Witness ==
    /\ lastStatus = 503
    /\ Len(buffer) = maxBufferSize
    /\ nextId - 1 \notin Range(admitted)

\* C7: a flush that finds samples takes exactly the buffer contents, in
\* order, and leaves the buffer empty; the batches taken so far, in the
\* order they were taken, followed by the buffer are the admitted samples in
\* admission order (so every admitted sample is in exactly one batch)
C7_FifoDrain ==
    /\ [](drained \o buffer = admitted)
    /\ [][/\ \A g \in Flushers :
               (batch[g] = <<>> /\ batch'[g] # <<>>)
                   => (batch'[g] = buffer /\ buffer' = <<>>)
          /\ Len(buffer') < Len(buffer)
               => \E g \in Flushers : batch[g] = <<>> /\ batch'[g] = buffer]_vars

\* two batches have been taken and a later sample waits in the buffer
C7_Witness ==
    /\ Len(drained) >= 2
    /\ buffer # <<>>
    /\ \E g \in Flushers : batch[g] # <<>> /\ batch[g] # drained

C1_NoLoss ==
    walConfigured
        => Range(admitted) \subseteq
               (InBuffer \cup InBatches \cup InWAL \cup store)

\* C8: the samples in the WAL are in admission order: records of different
\* batches are neither interleaved nor reordered
C8_WALOrder ==
    \A i, j \in 1..Len(walFile) : i < j => walFile[i] < walFile[j]

\* C9: at most one goroutine is inside flushWithRetry at any time
C9_OneFlushInFlight == Cardinality(InFlushWithRetry) <= 1


\* C2: if the store becomes reachable and stays reachable and the health
\* monitor keeps ticking, then from some moment on the WAL is empty and every
\* admitted sample is in the store
C2_EventuallyReplayed ==
    walConfigured
        => ((<>[]storeUp)
               => <>[](InWAL = {} /\ Range(admitted) \subseteq store))

\* C3: every sample answered 202 before a crash is in the store once a
\* post-restart health check with a successful probe has finished its replay
C3_AckedSurviveCrash ==
    (crashed /\ checkedSinceStart) => ackedAtCrash \subseteq store

\* C3 (amended): every sample that was a complete record of the WAL file at
\* the crash stays in the WAL or the store after the restart, and is in the
\* store once a post-restart health check with a successful probe has
\* finished its replay
C3_WALSurvivesCrash ==
    crashed
        => /\ walAtCrash \subseteq (InWAL \cup store)
           /\ checkedSinceStart => walAtCrash \subseteq store

\* a record of the WAL at the crash has been replayed after the restart and
\* the WAL cleared
C3_Witness ==
    /\ crashed
    /\ checkedSinceStart
    /\ walAtCrash # {}
    /\ walAtCrash \subseteq store
    /\ InWAL = {}

\* C4: once main has gone on from BatchProcessor.Stop to close the WAL, the
\* final flush has completed: no sample admitted before Stop is still in
\* memory, every one of them is in the store or in the WAL
C4_FinalFlushBeforeClose ==
    (walConfigured /\ mainPc \in {"shutdown", "exited"})
        => admittedAtStop \subseteq (InWAL \cup store)

\* C11: a flushWithRetry call begins at most maxRetries store transactions
\* and ends in one outcome.  Until it succeeds or falls back none of its
\* batch is in the store and it has written nothing to the WAL; after a
\* successful transaction the whole batch is in the store, success is
\* recorded and the call returns without writing to the WAL; the fallback
\* is entered only after a denied Allow or maxRetries failed attempts, with
\* none of the batch in the store, and it returns after appending the batch
\* record by record up to the last one, or with an error when the WAL is
\* absent or closed
C11_FlushOutcome ==
    /\ [](\A g \in Flushers :
            /\ storeAttempts[g] <= maxRetries
            /\ fpc[g] \in {"allow", "insert", "failure", "sleep"}
                   => (Range(batch[g]) \cap store = {} /\ walIdx[g] = 1)
            /\ fpc[g] = "success"
                   => (Range(batch[g]) \subseteq store /\ walIdx[g] = 1)
            /\ fpc[g] = "wal"
                   => (allowed[g] = "false" \/ storeAttempts[g] = maxRetries)
            /\ (fpc[g] = "wal" /\ walIdx[g] = 1)
                   => Range(batch[g]) \cap store = {})
    /\ [][\A g \in Flushers :
            /\ (fpc[g] = "success" /\ fpc'[g] # "success")
                   => /\ fpc'[g] = Returned(g)
                      /\ cb' = RecordSuccess(cb)
                      /\ walFile' = walFile
            /\ (fpc[g] = "wal" /\ fpc'[g] # "wal")
                   => /\ fpc'[g] = Returned(g)
                      /\ store' = store
                      /\ \/ (~walConfigured \/ ~walOpen) /\ walFile' = walFile
                         \/ /\ walIdx[g] = Len(batch[g])
                            /\ walFile' = Append(walFile, batch[g][walIdx[g]])
            /\ (fpc[g] = "wal" /\ fpc'[g] = "wal" /\ walIdx'[g] # walIdx[g])
                   => /\ walIdx'[g] = walIdx[g] + 1
                      /\ batch'[g] = batch[g]
                      /\ walFile' = Append(walFile, batch[g][walIdx[g]])]_vars

\* a flusher whose maxRetries attempts all failed has appended the first
\* record of its two-sample batch and is about to append the last
C11_Witness ==
    \E g \in Flushers :
        /\ fpc[g] = "wal"
        /\ Len(batch[g]) = 2
        /\ walIdx[g] = 2
        /\ storeAttempts[g] = maxRetries
        /\ allowed[g] = "true"
        /\ batch[g][1] \in InWAL

C18_ProbeUpdatesBreaker ==
    [][/\ (hmPc = "select" /\ isHealthy /\ ~isHealthy')
            => (cb' = RecordFailure(cb) /\ sinceLastFailure' = 0)
       /\ (hmPc = "select" /\ ~isHealthy /\ isHealthy')
            => cb' = RecordSuccess(cb)]_vars

\* C19: with the WAL and the health monitor in place, if the store becomes
\* reachable and stays reachable, the breaker is CLOSED from some moment on
\* (an OPEN breaker has gone through HALF_OPEN, the only way to CLOSED)
C19_BreakerRecloses ==
    walConfigured => ((<>[]storeUp) => <>[](cb.state = "CLOSED"))

\* C20: once BatchProcessor.Stop has been called every admission is
\* rejected: the sample is answered 503 and is not put in the buffer
C20_RejectAfterStop ==
    [][(done /\ nextId' = nextId + 1)
         => (lastStatus' = 503 /\ buffer' = buffer /\ admitted' = admitted)]_vars

\* C27: a record leaves the WAL only when it is committed to the store:
\* whatever step removes a record from the file, the record is in the store
\* after that step, records appended between a pass's ReadAll and its Clear
\* included
C27_RemovedOnlyIfCommitted ==
    [][\A r \in InWAL : r \in InWAL' \/ r \in store']_vars

\* the records that a replayWAL call at position pc, sub-batch index i, has
\* inserted of the records rs it read
InsertedByPass(pc, rs, i) ==
    IF pc \in {"insert", "clear"}
    THEN Range(SubSeq(rs, 1, Min(i, Len(rs))))
    ELSE {}

\* C28: the checkHealth that Start runs and a tick-driven checkHealth of
\* the monitor loop are never both inside replayWAL with records read from
\* the WAL, and no record is inserted by both
C28_OneReplayAtATime ==
    /\ ~(hmPc \in {"insert", "clear"} /\ startCheck.pc \in {"insert", "clear"})
    /\ InsertedByPass(hmPc, records, replayIdx)
           \cap InsertedByPass(startCheck.pc, startCheck.records,
                               startCheck.idx) = {}

\* the failed store transactions that flusher g's current flushWithRetry
\* call has reported to the breaker
RecordedBy(g) ==
    IF fpc[g] \in {"failure", "success"} THEN storeAttempts[g] - 1
    ELSE storeAttempts[g]

RECURSIVE RecordedUpTo(_)
RecordedUpTo(g) ==
    IF g < 0 THEN 0 ELSE RecordedBy(g) + RecordedUpTo(g - 1)

\* ... by the flushWithRetry calls in progress
RecordedFailures == RecordedUpTo(MaxSpawned)

\* flushes with a failed store transaction: those in progress, and at most
\* one finished flush for every record in the WAL
FailedFlushes ==
    Len(walFile) + Cardinality({g \in Flushers : RecordedBy(g) > 0})

\* during the outage nothing reaches the store, no drained sample is
\* dropped, a flush returns with its whole batch in the WAL and no replay
\* pass gets to Clear
RoutedToWAL ==
    /\ [][~storeUp => store' = store]_vars
    /\ [](Range(drained) \subseteq (store \cup InBatches \cup InWAL))
    /\ [][\A g \in Flushers :
            (~storeUp /\ batch[g] # <<>> /\ batch'[g] = <<>>)
                => Range(batch[g]) \subseteq (InWAL' \cup store)]_vars
    /\ [](hmPc # "clear")

C32_StopOnce ==
    [][(mainPc \in {"hmStop", "deferredStop"} /\ mainPc' # mainPc)
          => ~stopCh]_vars

\* ------------------------------------- properties of the breaker alone
\* the most recent call and whether this step is a call of op
LastCall == calls[Len(calls)]
JustCalled(op) == calls' # calls /\ calls'[Len(calls')].op = op

\* the outcomes recorded so far, oldest first
Outcomes(cs) ==
    SelectSeq(cs, LAMBDA c : c.op \in {"RecordSuccess", "RecordFailure"})

\* C13: RecordFailure on a CLOSED breaker adds one to the failure count and
\* opens the circuit exactly when the new count is >= the threshold,
\* otherwise the breaker stays CLOSED; with threshold 0 the first failure
\* of a new breaker opens it
C13_OpenAtThreshold ==
    /\ [][(JustCalled("RecordFailure") /\ cb.state = "CLOSED")
            => /\ cb'.failureCount = cb.failureCount + 1
               /\ cb'.state = IF cb'.failureCount >= cb.failureThreshold
                               THEN "OPEN" ELSE "CLOSED"]_vars
    /\ []((cb.failureThreshold = 0 /\ Len(calls) = 1
              /\ calls[1].op = "RecordFailure") => cb.state = "OPEN")

\* a breaker with threshold 0 opened by its first failure
C13_Witness ==
    /\ cb.failureThreshold = 0
    /\ Len(calls) = 1
    /\ LastCall.op = "RecordFailure"
    /\ cb.state = "OPEN"
    /\ cb.failureCount = 1

\* C14: on an OPEN breaker, Allow before the timeout has passed since the
\* last recorded failure returns false and leaves it OPEN, Allow after it
\* returns true and moves it to HALF_OPEN, a failure recorded while OPEN
\* restarts the timeout, and the breaker leaves OPEN only by that Allow or
\* by Reset: not as time passes, not by State, not by RecordSuccess
C14_OpenForTimeout ==
    [][cb.state = "OPEN"
         => /\ (JustCalled("Allow") /\ sinceLastFailure < timeout)
                  => (~LastCall'.ok /\ cb'.state = "OPEN")
            /\ (JustCalled("Allow") /\ sinceLastFailure >= timeout)
                  => (LastCall'.ok /\ cb'.state = "HALF_OPEN")
            /\ JustCalled("RecordFailure")
                  => (sinceLastFailure' = 0 /\ cb'.state = "OPEN")
            /\ cb'.state # "OPEN"
                  => \/ JustCalled("Reset")
                     \/ JustCalled("Allow") /\ sinceLastFailure >= timeout]_vars

\* an OPEN breaker denied an Allow before the timeout and let the next one
\* through after it
C14_Witness ==
    /\ Len(calls) >= 3
    /\ LastCall = [op |-> "Allow", ok |-> TRUE]
    /\ calls[Len(calls) - 1] = [op |-> "Allow", ok |-> FALSE]
    /\ cb.state = "HALF_OPEN"

\* C15: in HALF_OPEN, RecordSuccess closes the circuit with the failure
\* count and halfOpenAttempts zeroed, and RecordFailure re-opens it with the
\* last-failure time stamped and halfOpenAttempts zeroed
C15_HalfOpenOutcome ==
    [][cb.state = "HALF_OPEN"
         => /\ JustCalled("RecordSuccess")
                  => /\ cb'.state = "CLOSED"
                     /\ cb'.failureCount = 0
                     /\ cb'.halfOpenAttempts = 0
            /\ JustCalled("RecordFailure")
                  => /\ cb'.state = "OPEN"
                     /\ sinceLastFailure' = 0
                     /\ cb'.halfOpenAttempts = 0]_vars

\* a breaker opened by failures was closed by a success in HALF_OPEN
C15_Witness ==
    /\ Len(calls) >= 3
    /\ LastCall.op = "RecordSuccess"
    /\ calls[Len(calls) - 1] = [op |-> "Allow", ok |-> TRUE]
    /\ calls[1].op = "RecordFailure"
    /\ cb.failureThreshold >= 1
    /\ cb.state = "CLOSED"
    /\ cb.failureCount = 0

\* C16: the breaker goes from CLOSED to OPEN only when the last
\* failureThreshold recorded outcomes are all failures
C16_ConsecutiveFailures ==
    [][(cb.state = "CLOSED" /\ cb'.state = "OPEN")
         => LET os == Outcomes(calls')
            IN  /\ Len(os) >= cb.failureThreshold
                /\ \A i \in (Len(os) - cb.failureThreshold + 1)..Len(os) :
                       os[i].op = "RecordFailure"]_vars

\* C17: once an Allow has moved the breaker to HALF_OPEN, no further Allow
\* returns true until a success or a failure is recorded
C17_OneProbe ==
    [][(JustCalled("Allow") /\ cb.state = "HALF_OPEN")
         => ~LastCall'.ok]_vars

\* --------------------------------------- properties of the WAL alone
\* the records whose Write returned nil since the last Clear, in call order
RECURSIVE Acked(_)
Acked(cs) ==
    IF cs = <<>> THEN <<>>
    ELSE LET c == cs[Len(cs)]
             before == Acked(SubSeq(cs, 1, Len(cs) - 1))
         IN  IF c.op = "Clear" THEN <<>>
             ELSE IF c.op = "Write" /\ c.ok THEN Append(before, c.r)
             ELSE before

\* the call before the last one
PrevCall == calls[Len(calls) - 1]

\* C21: a fresh WAL instance opened on the same path reads back, in the
\* order of their appends, every record whose Write returned success (and
\* that no Clear removed since)
C21_RecoverableByFreshProcess ==
    (Len(calls) >= 2 /\ PrevCall.op = "NewWAL" /\ LastCall.op = "ReadAll")
        => LastCall.recs = Acked(calls)

\* what the calls so far put into the file as whole lines of their own:
\* a Write that returned nil adds its record unless the file ended in a
\* partial record, which that Write's bytes then continue
RECURSIVE Intact(_)
Intact(cs) ==
    IF cs = <<>> THEN [recs |-> <<>>, torn |-> FALSE]
    ELSE LET c == cs[Len(cs)]
             before == Intact(SubSeq(cs, 1, Len(cs) - 1))
         IN  CASE c.op = "Clear" -> [recs |-> <<>>, torn |-> FALSE]
               [] c.op = "CrashInWrite" -> [before EXCEPT !.torn = TRUE]
               [] c.op = "Write" /\ c.ok ->
                     IF before.torn
                     THEN [before EXCEPT !.torn = FALSE]
                     ELSE [before EXCEPT !.recs = Append(@, c.r)]
               [] OTHER -> before

\* C22: ReadAll returns without error every record that is a complete
\* line of the file, in file order, whatever partial tail or unparseable
\* line the file also holds
C22_ParseResilience ==
    (calls # <<>> /\ LastCall.op = "ReadAll")
        => /\ LastCall.ok
           /\ LastCall.recs = Intact(calls).recs
           /\ LastCall.recs = SelectSeq(walFile, LAMBDA l : l # Garbage)

\* a ReadAll of a file that holds an unparseable line and ends in a partial
\* record has returned the complete record that the file also holds
C22_Witness ==
    /\ calls # <<>>
    /\ LastCall.op = "ReadAll"
    /\ walTorn
    /\ Garbage \in Range(walFile)
    /\ LastCall.recs # <<>>

\* the call two before the last one
PrevPrevCall == calls[Len(calls) - 2]

\* C23: a ReadAll right after a successful Write returns a sequence that
\* ends in the written record and is one longer than Count said before the
\* Write; right after a Clear, ReadAll returns nothing and Count and Size
\* return 0
C23_AppendThenRead ==
    /\ (Len(calls) >= 2 /\ PrevCall.op = "Write" /\ PrevCall.ok
          /\ LastCall.op = "ReadAll")
         => /\ LastCall.recs # <<>>
            /\ LastCall.recs[Len(LastCall.recs)] = PrevCall.r
    /\ (Len(calls) >= 3 /\ PrevPrevCall.op = "Count"
          /\ PrevCall.op = "Write" /\ PrevCall.ok /\ LastCall.op = "ReadAll")
         => Len(LastCall.recs) = PrevPrevCall.n + 1
    /\ (Len(calls) >= 2 /\ PrevCall.op = "Clear")
         => /\ LastCall.op = "ReadAll" => LastCall.recs = <<>>
            /\ LastCall.op \in {"Count", "Size"} => LastCall.n = 0

\* a process has died inside Write since the file was last truncated
RECURSIVE CrashedInWrite(_)
CrashedInWrite(cs) ==
    IF cs = <<>> THEN FALSE
    ELSE LET c == cs[Len(cs)]
         IN  IF c.op = "Clear" THEN FALSE
             ELSE IF c.op = "CrashInWrite" THEN TRUE
             ELSE CrashedInWrite(SubSeq(cs, 1, Len(cs) - 1))

\* C30: after crashes inside Write, ReadAll returns every record whose
\* Write returned nil, before or after the crash: a crash costs no record
\* but the one that was being written
C30_CrashCostsOneRecord ==
    (calls # <<>> /\ LastCall.op = "ReadAll" /\ CrashedInWrite(calls))
        => Range(Acked(calls)) \subseteq Range(LastCall.recs)

\* C31: a Write that directly follows a ReadAll or a Clear, whatever that
\* call returned, does not fail: ReadAll and Clear leave w.file open
C31_AppendableAfterReadOrClear ==
    (Len(calls) >= 2 /\ LastCall.op = "Write"
        /\ PrevCall.op \in {"ReadAll", "Clear"})
        => LastCall.ok

\* ------------------------- properties of the WAL under concurrent calls
\* every appender has made all its Write calls
AppendersDone == \A g \in Appenders : walCalls.left[g] = 0

\* C24: the methods of the WAL exclude one another: every record whose
\* Write returned nil since the last truncation is in the file exactly once
\* and every line of the file is a whole record, so that N appenders with M
\* Writes each leave N*M records; what a ReadAll returns is the content the
\* file had at one moment of the call, never a part of it
C24_Serialized ==
    /\ \A r \in walCalls.acked :
           Cardinality({i \in 1..Len(walFile) : walFile[i] = r}) = 1
    /\ Garbage \notin Range(walFile)
    /\ (AppendersDone /\ ~walCalls.cleared)
           => Len(walFile) = MaxAppenders * MaxAppends
    /\ walCalls.hasRead => walCalls.recs \in walCalls.seen

\* all Writes have returned, a Clear ran between them and a ReadAll has
\* returned some but not all of the records written
C24_Witness ==
    /\ AppendersDone
    /\ walCalls.cleared
    /\ walCalls.hasRead
    /\ walCalls.recs # <<>>
    /\ Len(walCalls.recs) < MaxAppenders * MaxAppends

\* ----------------------------- properties of the WAL's record encoding
\* C25: the record that ReadAll returns for a sample written by flushToWAL
\* equals the sample in every field, the optional position fields included
C25_RoundTrip ==
    (calls # <<>> /\ LastCall.op = "ReadAll")
        => \A k \in Fields : LastCall.record[k] = LastCall.point[k]

\* ------------------------------------------ properties of the classifier
\* C26: detectAnomaly returns true exactly when the battery level is below
\* its minimum, or the storage above its maximum, or the signal below its
\* minimum; a value equal to its threshold does not trigger its branch
C26_ClassifierStrict ==
    (Len(calls) = 2 /\ LastCall.op = "detectAnomaly")
        => LET p == LastCall.point
               c == calls[1].config
               low == p.BatteryChargePercent < c.BatteryMinPercent
               full == p.StorageUsageMB > c.StorageMaxMB
               weak == p.SignalStrengthDBM < c.SignalMinDBM
           IN  /\ LastCall.result = (low \/ full \/ weak)
               /\ p.BatteryChargePercent = c.BatteryMinPercent
                      => LastCall.result = (full \/ weak)
               /\ p.StorageUsageMB = c.StorageMaxMB
                      => LastCall.result = (low \/ weak)
               /\ p.SignalStrengthDBM = c.SignalMinDBM
                      => LastCall.result = (low \/ full)

\* a reading with all three values at their thresholds has been classified
\* as normal
C26_Witness ==
    /\ Len(calls) = 2
    /\ LastCall.op = "detectAnomaly"
    /\ LastCall.point.BatteryChargePercent = calls[1].config.BatteryMinPercent
    /\ LastCall.point.StorageUsageMB = calls[1].config.StorageMaxMB
    /\ LastCall.point.SignalStrengthDBM = calls[1].config.SignalMinDBM
    /\ ~LastCall.result

\* ------------------------------------------ the breaker's call table
\* C33: the Allow that moves the breaker from OPEN to HALF_OPEN returns
\* true and leaves halfOpenAttempts at 0; an Allow in HALF_OPEN keeps the
\* state HALF_OPEN, and returns true and sets the counter to 1 when the
\* counter was 0, and returns false otherwise
C33_HalfOpenAllow ==
    [][JustCalled("Allow") =>
          /\ (cb.state = "OPEN" /\ cb'.state = "HALF_OPEN")
                => (calls'[Len(calls')].ok /\ cb'.halfOpenAttempts = 0)
          /\ cb.state = "HALF_OPEN"
                => /\ cb'.state = "HALF_OPEN"
                   /\ IF cb.halfOpenAttempts = 0
                      THEN calls'[Len(calls')].ok /\ cb'.halfOpenAttempts = 1
                      ELSE ~calls'[Len(calls')].ok]_vars

\* a failure opened the circuit, and of the three Allow calls after the
\* timeout the first two returned true and the third false
C33_Witness ==
    /\ Len(calls) = 4
    /\ calls[1].op = "RecordFailure"
    /\ \A i \in 2..4 : calls[i].op = "Allow"
    /\ calls[2].ok /\ calls[3].ok /\ ~calls[4].ok
    /\ cb.state = "HALF_OPEN"

\* C34: RecordFailure adds exactly 1 to the failure count in every state;
\* RecordSuccess in HALF_OPEN and Reset set it to 0; RecordSuccess in CLOSED
\* or OPEN, Allow, State and the passing of time leave it unchanged
C34_FailureCountFrame ==
    [][IF calls' = calls
       THEN cb'.failureCount = cb.failureCount
       ELSE LET op == calls'[Len(calls')].op
            IN  cb'.failureCount =
                    CASE op = "RecordFailure" -> cb.failureCount + 1
                      [] op = "RecordSuccess" ->
                            IF cb.state = "HALF_OPEN" THEN 0
                            ELSE cb.failureCount
                      [] op = "Reset" -> 0
                      [] op \in {"Allow", "State"} -> cb.failureCount]_vars

\* two failures counted, the second on an OPEN breaker, then a Reset
C34_Witness ==
    /\ Len(calls) = 3
    /\ cb.failureThreshold = 1
    /\ calls[1].op = "RecordFailure"
    /\ calls[2].op = "RecordFailure"
    /\ calls[3].op = "Reset"
    /\ cb.failureCount = 0

\* C35: with a threshold of at least 1, a CLOSED breaker has a failure
\* count below the threshold, and halfOpenAttempts is 0 whenever the state
\* is not HALF_OPEN
C35_BreakerInvariant ==
    cb.failureThreshold >= 1
        => /\ cb.state = "CLOSED" => cb.failureCount < cb.failureThreshold
           /\ cb.state # "HALF_OPEN" => cb.halfOpenAttempts = 0

\* HALF_OPEN was entered and a probe admitted (halfOpenAttempts 1), then a
\* failure reopened the circuit
C35_Witness ==
    /\ Len(calls) = 4
    /\ cb.failureThreshold = 1
    /\ calls[1].op = "RecordFailure"
    /\ calls[2].op = "Allow" /\ calls[2].ok
    /\ calls[3].op = "Allow" /\ calls[3].ok
    /\ calls[4].op = "RecordFailure"
    /\ cb.state = "OPEN"

\* ------------------------------------------- properties of one replay
RECURSIVE Flatten(_)
\* the records of a sequence of calls, one after the other
Flatten(cs) == IF cs = <<>> THEN <<>> ELSE Head(cs).recs \o Flatten(Tail(cs))

\* the store transactions of the replayWAL call so far
Transactions == SelectSeq(calls, LAMBDA c : c.op = "insertWALRecords")

\* C36: replayWAL writes the records that ReadAll returned in contiguous
\* sub-batches of at most replayBatchSize records, in file order, one store
\* transaction each; a pass whose transactions all succeed writes every
\* record exactly once, in order, in ceil(n / replayBatchSize)
\* transactions and then clears; with no record there is no transaction and
\* no Clear
C36_ReplayPartition ==
    calls # <<>> =>
        LET rs == calls[1].recs
            txs == Transactions
            allOk == \A i \in 1..Len(txs) : txs[i].ok
        IN  /\ \A i \in 1..Len(txs) :
                  /\ txs[i].recs =
                         SubSeq(rs, (i - 1) * replayBatchSize + 1,
                                Min(i * replayBatchSize, Len(rs)))
                  /\ Len(txs[i].recs) \in 1..replayBatchSize
            /\ (hmPc = "returned" /\ allOk /\ rs # <<>>)
                  => /\ LastCall.op = "Clear"
                     /\ Flatten(txs) = rs
                     /\ Len(txs) = (Len(rs) + replayBatchSize - 1)
                                       \div replayBatchSize
                     /\ Range(rs) \subseteq store
            /\ LastCall.op = "Clear" => allOk
            /\ rs = <<>> => Len(calls) = 1

\* a pass over three records: two transactions, the second with one
\* record, then Clear
C36_Witness ==
    /\ Len(calls) = 4
    /\ Len(calls[1].recs) = 3
    /\ calls[4].op = "Clear"
    /\ Len(calls[3].recs) = 1

\* ------------------------------------------ properties of the backoff
\* C37: the sleep after failed attempt k lasts retryDelay * 2^k plus a
\* jitter within 20 % of that delay either way; a sleep follows every
\* failed attempt but the last, and the last is followed by flushToWAL
C37_Backoff ==
    [][Len(calls) = 2 =>
          /\ calls'[2].op = "Sleep"
                => LET delay == retryDelay * 2^(calls[2].attempt)
                   IN  /\ calls[2].op = "insertBatch"
                       /\ calls[2].attempt < calls[1].maxRetries - 1
                       /\ 5 * (calls'[2].d - delay) <= delay
                       /\ 5 * (delay - calls'[2].d) <= delay
          /\ (calls[2].op = "insertBatch"
                /\ calls[2].attempt = calls[1].maxRetries - 1)
                => calls'[2].op = "flushToWAL"]_vars

\* after the third failed attempt of four the writer has slept, and the
\* jitters drawn were negative once and positive once
C37_Witness ==
    /\ Len(calls) = 2
    /\ calls[1].maxRetries = 4
    /\ calls[2].op = "Sleep"
    /\ calls[2].attempt = 2
    /\ calls[2].d > 4 * retryDelay
    /\ {-1, 1} \subseteq calls[2].signs

\* ------------------------------------- properties of the buffer mutex
\* C38: bp.bufferMutex is held only inside Add's check-and-enqueue and
\* flush's copy-and-reset: no goroutine inside flushWithRetry (breaker,
\* store transaction, backoff sleep, WAL append) holds it, and whoever holds
\* it can release it whatever the store does
C38_MutexNotHeldAcrossIO ==
    /\ (bufferMutex = "flush") = (\E g \in Flushers : fpc[g] = "locked")
    /\ Cardinality({g \in Flushers : fpc[g] = "locked"}) <= 1
    /\ (bufferMutex # "free" /\ mainPc # "exited")
          => ENABLED (MuAdd \/ \E g \in Flushers : MuCopy(g))

\* a sample was admitted with 202 while a flusher is inside a store
\* transaction on an unreachable store, and the mutex is free again
C38_Witness ==
    /\ \E g \in Flushers :
           /\ fpc[g] = "insert"
           /\ batch[g] # <<>>
           /\ \E r \in Range(buffer) : \A b \in Range(batch[g]) : b < r
    /\ ~storeUp
    /\ lastStatus = 202
    /\ bufferMutex = "free"

\* ------------------------------------- properties of the batch endpoint
\* the samples of the batch request that Add put in the buffer
Enqueued == {r \in Range(admitted) : r > MaxSamples}

\* C39: POST /telemetry/batch answers 202, never 503, and the count of its
\* response, read back as a TelemetryResponse, is the number of the
\* request's samples that were enqueued; samples refused by a full buffer
\* are not counted
C39_BatchCount ==
    (calls # <<>> /\ calls[1].status # 0)
        => /\ calls[1].status = 202
           /\ UnmarshalCount(calls[1].body) = Cardinality(Enqueued)
           /\ Cardinality(Enqueued) <= calls[1].points

\* a request of three samples answered 202 with none of them enqueued
C39_Witness ==
    /\ calls # <<>>
    /\ calls[1].status = 202
    /\ calls[1].points = 3
    /\ Enqueued = {}

\* ------------------------------------- properties of the anomaly log
\* the anomaly conditions that a sample meets
Triggering(point, anomalyConfig) ==
    {c \in {"battery", "storage", "signal"} :
        \/ c = "battery"
              /\ point.BatteryChargePercent < anomalyConfig.BatteryMinPercent
        \/ c = "storage"
              /\ point.StorageUsageMB > anomalyConfig.StorageMaxMB
        \/ c = "signal"
              /\ point.SignalStrengthDBM < anomalyConfig.SignalMinDBM}

\* C40: for a sample that meets k of the three anomaly conditions,
\* detectAnomaly logs exactly k anomaly lines, and its one flag is set
\* exactly when k > 0
C40_LogPerCondition ==
    Len(calls) = 2 =>
        LET k == Cardinality(Triggering(calls[2].point, calls[1].config))
        IN  /\ Len(calls[2].logs) = k
            /\ calls[2].result = (k > 0)

====
